---- MODULE Spec2Model ----
\* Model of the keystone operator charm: the event handlers of
\* KeystoneOperatorCharm (src/src/charm.py), the peer relation state
\* (src/src/keystone_peers.py), the KeystoneManager bootstrap steps and
\* get-or-create operations (src/src/utils/manager.py), the configuration
\* contexts (src/src/utils/contexts.py) and the secrets store
\* (src/src/secrets).
\*
\* Conventions.
\*  - One action per event handler; the action is the whole handler.  The
\*    handler body is a chain of operators over a handler context `c` (a
\*    record holding everything the handler can change plus its own trace);
\*    an operator leaves the context alone once c.exc holds a raised
\*    exception, which is how a Python exception skips the rest of a body.
\*  - The charm has one workload container ("keystone"); how its handle is
\*    threaded through calls (argument or name) is not modelled.
\*  - Assignments take effect when executed; an unhandled exception ends the
\*    handler and leaves the effects made before it.
EXTENDS Integers, Sequences, FiniteSets, TLC

\* ------------------------------------------------------------------ bounds
MaxEvents == 4        \* events delivered in one behaviour of Spec
MaxOps == 3           \* manager operations in one behaviour of SpecApi
MaxCalls == 2         \* manager operations in one behaviour of SpecManager
MaxApiFail == 2       \* Spec: the identity API call of a handler that is
                      \* rejected is one of its first MaxApiFail calls

\* ------------------------------------------------------------------- names
\* A name is its lower-case spelling plus the set of positions written in
\* upper case, so that 'Default' and 'default' are different names with the
\* same lower().
Name(base, caps) == [base |-> base, caps |-> caps]

\* str.lower()
lower(name) == [name EXCEPT !.caps = {}]

None == [none |-> TRUE]

NoExc == "none"

\* ---------------------------------------------------------- identity state
\* The resources held by the identity service.  A list call returns them in
\* creation (id) order.
EmptyKs ==
    [domains |-> {}, projects |-> {}, users |-> {}, roles |-> {},
     grants |-> {}, services |-> {}, endpoints |-> {}, nextid |-> 1]

\* first element, in list order, of a non-empty result set
FirstOf(S) == CHOOSE r \in S : \A q \in S : r.id <= q.id

\* One round trip to the identity API (self.api.<manager>.<call>): it is
\* appended to the handler's API trace and raises when the service rejects
\* it (the c.failAt-th call of the handler).
ApiCall(c, call) ==
    IF c.exc # NoExc THEN c
    ELSE LET c1 == [c EXCEPT !.n = @ + 1, !.api = Append(@, call)]
         IN  IF c1.n = c1.failAt THEN [c1 EXCEPT !.exc = "ApiError"] ELSE c1

\* KeystoneManager.get_domain, case-sensitive comparison
get_domain_case(c, name) ==
    LET Listed(c1) ==
            IF c1.exc # NoExc THEN c1
            ELSE LET m == {d \in c1.ks.domains : d.name = name}
                 IN  [c1 EXCEPT !.ret = IF m = {} THEN None ELSE FirstOf(m)]
    IN  Listed(ApiCall(c, "domains.list"))

\* KeystoneManager.get_domain
get_domain(c, name) ==
    LET Listed(c1) ==
            IF c1.exc # NoExc THEN c1
            ELSE LET m == {d \in c1.ks.domains : lower(d.name) = lower(name)}
                 IN  [c1 EXCEPT !.ret = IF m = {} THEN None ELSE FirstOf(m)]
    IN  Listed(ApiCall(c, "domains.list"))

\* KeystoneManager.create_domain
create_domain(c, name, may_exist) ==
    LET Created(c2) ==
            IF c2.exc # NoExc THEN c2
            ELSE LET d == [id |-> c2.ks.nextid, name |-> name]
                 IN  [c2 EXCEPT !.ks.domains = @ \cup {d},
                                !.ks.nextid = @ + 1, !.ret = d]
        Looked(c1) ==
            IF c1.exc # NoExc THEN c1
            ELSE IF c1.ret # None THEN c1
            ELSE Created(ApiCall(c1, "domains.create"))
    IN  IF c.exc # NoExc THEN c
        ELSE Looked(IF may_exist THEN get_domain(c, name)
                    ELSE [c EXCEPT !.ret = None])

\* KeystoneManager.create_project
create_project(c, name, domain, may_exist) ==
    LET Created(c2) ==
            IF c2.exc # NoExc THEN c2
            ELSE LET p == [id |-> c2.ks.nextid, name |-> name,
                           domain |-> domain.id]
                 IN  [c2 EXCEPT !.ks.projects = @ \cup {p},
                                !.ks.nextid = @ + 1, !.ret = p]
        Listed(c1) ==
            IF c1.exc # NoExc THEN c1
            ELSE LET m == {p \in c1.ks.projects :
                             /\ p.domain = domain.id
                             /\ lower(p.name) = lower(name)}
                 IN  IF may_exist /\ m # {}
                     THEN [c1 EXCEPT !.ret = FirstOf(m)]
                     ELSE Created(ApiCall(c1, "projects.create"))
    IN  IF c.exc # NoExc THEN c
        ELSE Listed(IF may_exist THEN ApiCall(c, "projects.list") ELSE c)

\* the users a users.list(default_project=project, domain=domain) returns
UsersListed(ks, project, domain) ==
    {u \in ks.users :
        /\ (domain # None => u.domain = domain.id)
        /\ (project # None => u.project = project.id)}

\* KeystoneManager.get_user
get_user(c, name, project, domain) ==
    LET Listed(c1) ==
            IF c1.exc # NoExc THEN c1
            ELSE LET m == {u \in UsersListed(c1.ks, project, domain) :
                             lower(u.name) = lower(name)}
                 IN  [c1 EXCEPT !.ret = IF m = {} THEN None ELSE FirstOf(m)]
    IN  Listed(ApiCall(c, "users.list"))

\* KeystoneManager.create_user
create_user(c, name, project, domain, may_exist) ==
    LET Created(c2) ==
            IF c2.exc # NoExc THEN c2
            ELSE LET u == [id |-> c2.ks.nextid, name |-> name,
                           domain |-> IF domain = None THEN 0 ELSE domain.id,
                           project |-> IF project = None THEN 0
                                       ELSE project.id]
                 IN  [c2 EXCEPT !.ks.users = @ \cup {u},
                                !.ks.nextid = @ + 1, !.ret = u]
        Looked(c1) ==
            IF c1.exc # NoExc THEN c1
            ELSE IF c1.ret # None THEN c1
            ELSE Created(ApiCall(c1, "users.create"))
    IN  IF c.exc # NoExc THEN c
        ELSE Looked(IF may_exist THEN get_user(c, name, project, domain)
                    ELSE [c EXCEPT !.ret = None])

\* the roles a roles.list(domain=domain) returns
RolesListed(ks, domain) ==
    {r \in ks.roles : r.domain = (IF domain = None THEN 0 ELSE domain.id)}

\* KeystoneManager.get_role
get_role(c, name, domain) ==
    LET Listed(c1) ==
            IF c1.exc # NoExc THEN c1
            ELSE LET m == {r \in RolesListed(c1.ks, domain) : r.name = name}
                 IN  [c1 EXCEPT !.ret = IF m = {} THEN None ELSE FirstOf(m)]
    IN  Listed(ApiCall(c, "roles.list"))

\* KeystoneManager.create_role
create_role(c, name, domain, may_exist) ==
    LET Created(c2) ==
            IF c2.exc # NoExc THEN c2
            ELSE LET r == [id |-> c2.ks.nextid, name |-> name,
                           domain |-> IF domain = None THEN 0 ELSE domain.id]
                 IN  [c2 EXCEPT !.ks.roles = @ \cup {r},
                                !.ks.nextid = @ + 1, !.ret = r]
        Looked(c1) ==
            IF c1.exc # NoExc THEN c1
            ELSE IF c1.ret # None THEN c1
            ELSE Created(ApiCall(c1, "roles.create"))
    IN  IF c.exc # NoExc THEN c
        ELSE Looked(IF may_exist THEN get_role(c, name, domain)
                    ELSE [c EXCEPT !.ret = None])

\* the scope of a role assignment
Scope(project, domain) ==
    IF project # None THEN [kind |-> "project", id |-> project.id]
    ELSE [kind |-> "domain", id |-> domain.id]

\* KeystoneManager.get_roles without the test for project and domain both
\* given
get_roles_unchecked(c, user, project, domain) ==
    LET Listed(c1) ==
            IF c1.exc # NoExc THEN c1
            ELSE [c1 EXCEPT !.ret =
                     {r \in c1.ks.roles :
                        [role |-> r.id, user |-> user.id,
                         scope |-> Scope(project, domain)] \in c1.ks.grants}]
    IN  IF c.exc # NoExc THEN c
        ELSE IF project = None /\ domain = None
             THEN [c EXCEPT !.exc = "ValueError"]
        ELSE Listed(ApiCall(c, "roles.list"))

\* KeystoneManager.get_roles
get_roles(c, user, project, domain) ==
    LET Listed(c1) ==
            IF c1.exc # NoExc THEN c1
            ELSE [c1 EXCEPT !.ret =
                     {r \in c1.ks.roles :
                        [role |-> r.id, user |-> user.id,
                         scope |-> Scope(project, domain)] \in c1.ks.grants}]
    IN  IF c.exc # NoExc THEN c
        ELSE IF project # None /\ domain # None
             THEN [c EXCEPT !.exc = "ValueError"]
        ELSE IF project = None /\ domain = None
             THEN [c EXCEPT !.exc = "ValueError"]
        ELSE Listed(ApiCall(c, "roles.list"))

\* KeystoneManager.grant_role without the may_exist lookup
grant_role_always(c, role, user, project, domain, may_exist) ==
    LET Granted(c2) ==
            IF c2.exc # NoExc THEN c2
            ELSE [c2 EXCEPT !.ks.grants =
                               @ \cup {[role |-> role.id, user |-> user.id,
                                        scope |-> Scope(project, domain)]},
                            !.ret = None]
    IN  IF c.exc # NoExc THEN c
        ELSE IF project # None /\ domain # None
             THEN [c EXCEPT !.exc = "ValueError"]
        ELSE IF project = None /\ domain = None
             THEN [c EXCEPT !.exc = "ValueError"]
        ELSE Granted(ApiCall(c, "roles.grant"))

\* KeystoneManager.grant_role
grant_role(c, role, user, project, domain, may_exist) ==
    LET Granted(c2) ==
            IF c2.exc # NoExc THEN c2
            ELSE [c2 EXCEPT !.ks.grants =
                               @ \cup {[role |-> role.id, user |-> user.id,
                                        scope |-> Scope(project, domain)]},
                            !.ret = None]
        Looked(c1) ==
            IF c1.exc # NoExc THEN c1
            ELSE LET m == {r \in c1.ret : r.id = role.id}
                 IN  IF m # {} THEN [c1 EXCEPT !.ret = FirstOf(m)]
                     ELSE Granted(ApiCall(c1, "roles.grant"))
    IN  IF c.exc # NoExc THEN c
        ELSE IF project # None /\ domain # None
             THEN [c EXCEPT !.exc = "ValueError"]
        ELSE IF project = None /\ domain = None
             THEN [c EXCEPT !.exc = "ValueError"]
        ELSE Looked(IF may_exist THEN get_roles(c, user, project, domain)
                    ELSE [c EXCEPT !.ret = {}])

\* KeystoneManager.create_service
create_service(c, name, service_type, may_exist) ==
    LET Created(c2) ==
            IF c2.exc # NoExc THEN c2
            ELSE LET s == [id |-> c2.ks.nextid, name |-> name,
                           type |-> service_type]
                 IN  [c2 EXCEPT !.ks.services = @ \cup {s},
                                !.ks.nextid = @ + 1, !.ret = s]
        Listed(c1) ==
            IF c1.exc # NoExc THEN c1
            ELSE LET m == {s \in c1.ks.services :
                             s.name = name /\ s.type = service_type}
                 IN  IF may_exist /\ m # {}
                     THEN [c1 EXCEPT !.ret = FirstOf(m)]
                     ELSE Created(ApiCall(c1, "services.create"))
    IN  IF c.exc # NoExc THEN c
        ELSE Listed(IF may_exist THEN ApiCall(c, "services.list") ELSE c)

\* the endpoints an endpoints.list(service, interface, region) returns
EndpointsListed(ks, service, interface, region) ==
    {e \in ks.endpoints : /\ e.service = service.id
                          /\ e.interface = interface
                          /\ e.region = region}

\* KeystoneManager.create_endpoint creating a new endpoint where it is to
\* update the one found
create_endpoint_no_update(c, service, url, interface, region, may_exist) ==
    LET Created(c3) ==
            IF c3.exc # NoExc THEN c3
            ELSE LET e == [id |-> c3.ks.nextid, service |-> service.id,
                           interface |-> interface, region |-> region,
                           url |-> url]
                 IN  [c3 EXCEPT !.ks.endpoints = @ \cup {e},
                                !.ks.nextid = @ + 1, !.ret = e]
        Listed(c1) ==
            IF c1.exc # NoExc THEN c1
            ELSE LET m == EndpointsListed(c1.ks, service, interface, region)
                 IN  IF may_exist /\ m # {} THEN
                         IF Cardinality(m) # 1
                         THEN [c1 EXCEPT !.exc = "AssertionError"]
                         ELSE IF FirstOf(m).url # url
                         THEN Created(ApiCall(c1, "endpoints.create"))
                         ELSE [c1 EXCEPT !.ret = FirstOf(m)]
                     ELSE Created(ApiCall(c1, "endpoints.create"))
    IN  IF c.exc # NoExc THEN c
        ELSE Listed(IF may_exist THEN ApiCall(c, "endpoints.list") ELSE c)

\* KeystoneManager.create_endpoint
create_endpoint(c, service, url, interface, region, may_exist) ==
    LET Created(c3) ==
            IF c3.exc # NoExc THEN c3
            ELSE LET e == [id |-> c3.ks.nextid, service |-> service.id,
                           interface |-> interface, region |-> region,
                           url |-> url]
                 IN  [c3 EXCEPT !.ks.endpoints = @ \cup {e},
                                !.ks.nextid = @ + 1, !.ret = e]
        Updated(c2, e0) ==
            IF c2.exc # NoExc THEN c2
            ELSE [c2 EXCEPT !.ks.endpoints =
                               (@ \ {e0}) \cup {[e0 EXCEPT !.url = url]},
                            !.ret = [e0 EXCEPT !.url = url]]
        Listed(c1) ==
            IF c1.exc # NoExc THEN c1
            ELSE LET m == EndpointsListed(c1.ks, service, interface, region)
                 IN  IF may_exist /\ m # {} THEN
                         IF Cardinality(m) # 1
                         THEN [c1 EXCEPT !.exc = "AssertionError"]
                         ELSE IF FirstOf(m).url # url
                         THEN Updated(ApiCall(c1, "endpoints.update"),
                                      FirstOf(m))
                         ELSE [c1 EXCEPT !.ret = FirstOf(m)]
                     ELSE Created(ApiCall(c1, "endpoints.create"))
    IN  IF c.exc # NoExc THEN c
        ELSE Listed(IF may_exist THEN ApiCall(c, "endpoints.list") ELSE c)

\* ------------------------------------------------------- charm: constants
\* the units of the application; the handlers of the units in Units are
\* modelled, leadership can be held by any unit of the application
Units == {"keystone/0"}
AllUnits == {"keystone/0", "keystone/1"}

\* application name (self.app.name)
AppName == "keystone"

Absent == [absent |-> TRUE]
Str(s) == [str |-> s]
Id(n) == [id |-> n]

\* resource names used by the charm
N_default == Name("default", {})
N_Default == Name("default", {1})
N_admin_domain == Name("admin_domain", {})
N_admin == Name("admin", {})
N_member == Name("member", {})
N_reader == Name("reader", {})
N_service_domain == Name("service_domain", {})

\* charm configuration values (config.yaml defaults and operator changes):
\* region is the whitespace separated 'region' option already split, url
\* stands for the hostname/port options the three endpoint URLs are built
\* from.
Configs ==
    {[region |-> <<"RegionOne">>, url |-> "u1",
      admin_user |-> N_admin, admin_role |-> Name("admin", {1}),
      service_tenant |-> Name("services", {})],
     [region |-> <<"RegionTwo", "RegionOne">>, url |-> "u2",
      admin_user |-> N_admin, admin_role |-> Name("admin", {1}),
      service_tenant |-> Name("services", {})]}

DefaultConfig == CHOOSE cfg \in Configs : cfg.url = "u1"

\* KeystoneOperatorCharm.admin_endpoint / internal_endpoint / public_endpoint
admin_endpoint(cfg) == <<"admin", cfg.url>>
internal_endpoint(cfg) == <<"internal", cfg.url>>
public_endpoint(cfg) == <<"public", cfg.url>>

\* ---------------------------------------------------- charm: peer relation
PeerKeys == {"keystone_password", "keystone_bootstrapped",
             "default_domain_id", "admin_domain_id", "admin_project_id",
             "admin_user", "service_domain_id", "service_project_id"}

EmptyBag == [k \in PeerKeys |-> Absent]

\* json.dumps / json.loads on booleans
json_dumps(b) == IF b THEN "true" ELSE "false"
json_loads(s) == s = "true"

\* KeystoneOperatorPeers.is_bootstrapped with the stored string taken for
\* the flag, not decoded
is_bootstrapped_undecoded(c) ==
    IF ~c.env.peers_rel THEN FALSE
    ELSE c.peer["keystone_bootstrapped"] \notin {Absent, None, Str("")}

\* KeystoneOperatorPeers.is_bootstrapped
is_bootstrapped(c) ==
    IF ~c.env.peers_rel THEN FALSE
    ELSE LET bs == c.peer["keystone_bootstrapped"]
         IN  IF bs \in {Absent, None, Str("")} THEN FALSE
             ELSE json_loads(bs.str)

\* KeystoneOperatorPeers.charm_password
charm_password(c) ==
    IF ~c.env.peers_rel THEN None
    ELSE IF c.peer["keystone_password"] = Absent THEN None
    ELSE c.peer["keystone_password"]

\* KeystoneOperatorPeers.set_charm_password
set_charm_password(c, password) ==
    IF c.exc # NoExc THEN c
    ELSE [c EXCEPT !.peer["keystone_password"] = Str(password),
                   !.writes = Append(@, "keystone_password")]

\* KeystoneOperatorPeers.set_bootstrapped.  Relation data values must be
\* strings: the assignment of None to the first identifier, after the flag
\* was written, raises ops.model.RelationDataError.
set_bootstrapped(c, bootstrapped, ids) ==
    IF c.exc # NoExc THEN c
    ELSE IF bootstrapped
    THEN [c EXCEPT !.peer = [k \in PeerKeys |->
                               IF k = "keystone_bootstrapped"
                               THEN Str(json_dumps(bootstrapped))
                               ELSE IF k = "keystone_password" THEN @[k]
                               ELSE ids[k]],
                   !.writes = Append(@, "keystone_bootstrapped")]
    ELSE [c EXCEPT !.peer["keystone_bootstrapped"] =
                       Str(json_dumps(bootstrapped)),
                   !.writes = Append(@, "keystone_bootstrapped"),
                   !.exc = "RelationDataError"]

\* the peer properties default_domain_id, admin_domain_id,
\* service_project_id read self._app_data_bag, which dereferences the peer
\* relation
PeerGet(c, key) ==
    IF c.peer[key] = Absent THEN None ELSE c.peer[key]

\* ------------------------------------------------ charm: handler context
\* StoredState defaults set in KeystoneOperatorCharm.__init__
StoredDefault ==
    [db_ready |-> FALSE, admin_domain_name |-> N_admin_domain,
     admin_domain_id |-> None, default_domain_id |-> None,
     service_project_id |-> None]

\* the workload container of a unit before anything was written to it
EmptyFs ==
    [conf |-> None, layer |-> "none", site |-> FALSE, running |-> FALSE,
     fernet |-> FALSE, credential |-> FALSE]

UnknownStatus == [name |-> "unknown", msg |-> ""]

SetStatus(c, name, msg) ==
    IF c.exc # NoExc THEN c
    ELSE [c EXCEPT !.status = [name |-> name, msg |-> msg],
                   !.sets = Append(@, name)]

Log(c, op, res) ==
    IF c.exc # NoExc THEN c
    ELSE [c EXCEPT !.calls = Append(@, [op |-> op, res |-> res])]

Raise(c, exc) == IF c.exc # NoExc THEN c ELSE [c EXCEPT !.exc = exc]

\* records the path a handler leaves _do_bootstrap by
Exit(c, path) == IF c.exit # "" THEN c ELSE [c EXCEPT !.exit = path]

\* ------------------------------------------------- configuration contexts
\* contexts.KeystoneContext.__call__: reads the charm properties
\* service_project_id, admin_domain_name, admin_domain_id and
\* default_domain_id, which all read the peer application data bag
\* (peers_rel.data[...]); without a peer relation peers_rel is None.
KeystoneContext(c) ==
    IF ~c.env.peers_rel THEN [exc |-> "AttributeError", ctxt |-> None]
    ELSE [exc |-> NoExc,
          ctxt |-> [service_tenant_id |-> PeerGet(c, "service_project_id"),
                    admin_domain_name |-> PeerGet(c, "admin_domain_id"),
                    admin_domain_id |-> PeerGet(c, "admin_domain_id"),
                    default_domain_id |-> PeerGet(c, "default_domain_id"),
                    admin_role |-> c.env.config.admin_role,
                    public_endpoint |-> public_endpoint(c.env.config),
                    admin_endpoint |-> admin_endpoint(c.env.config)]]

\* contexts.DatabaseContext.__call__
DatabaseContext(c) ==
    IF ~c.env.db.rel THEN [exc |-> NoExc, ctxt |-> None]
    ELSE IF ~c.env.db.dbs THEN [exc |-> NoExc, ctxt |-> None]
    ELSE IF ~c.env.db.creds THEN [exc |-> "AttributeError", ctxt |-> None]
    ELSE [exc |-> NoExc, ctxt |-> [database_type |-> "mysql+pymysql"]]

\* SidecarConfigRenderer.write_all: renders every registered file from its
\* contexts (KeystoneOperatorCharm._register_configs) and pushes it to the
\* container.
write_all(c) ==
    LET k == KeystoneContext(c)
        d == DatabaseContext(c)
    IN  IF c.exc # NoExc THEN c
        ELSE IF k.exc # NoExc THEN Raise(c, k.exc)
        ELSE IF d.exc # NoExc THEN Raise(c, d.exc)
        ELSE [c EXCEPT !.fs.conf = [keystone |-> k.ctxt, database |-> d.ctxt]]

\* KeystoneOperatorCharm.render_configs
render_configs(c) == write_all(Log(c, "render_configs", "call"))

\* KeystoneOperatorCharm._keystone_layer with startup always enabled
_keystone_layer_enabled(c) == "enabled"

\* KeystoneOperatorCharm._keystone_layer: the startup of keystone-wsgi
_keystone_layer(c) == IF is_bootstrapped(c) THEN "enabled" ELSE "disabled"

\* KeystoneOperatorCharm._update_keystone_container; given says whether the
\* caller passed a container
_update_keystone_container(c, given) ==
    LET AddLayer(c1) ==
            IF c1.exc # NoExc THEN c1
            ELSE Log([c1 EXCEPT !.fs.layer = _keystone_layer(c1)],
                     "add_layer", _keystone_layer(c1))
    IN  IF c.exc # NoExc THEN c
        ELSE IF ~given /\ ~c.env.container THEN c
        ELSE AddLayer(render_configs(c))

\* KeystoneOperatorCharm._enable_keystone_wsgi without the except clause
_enable_keystone_wsgi_uncaught(c) ==
    IF c.exc # NoExc THEN c
    ELSE IF c.env.wsgiFail
    THEN Raise(Log(c, "a2ensite", "fail"), "ContainerProcessError")
    ELSE Log([c EXCEPT !.fs.site = TRUE], "a2ensite", "ok")

\* KeystoneOperatorCharm._enable_keystone_wsgi: a ContainerProcessError of
\* check_output is logged and ignored
_enable_keystone_wsgi(c) ==
    IF c.exc # NoExc THEN c
    ELSE IF c.env.wsgiFail THEN Log(c, "a2ensite", "fail")
    ELSE Log([c EXCEPT !.fs.site = TRUE], "a2ensite", "ok")

\* KeystoneOperatorCharm._restart_keystone
_restart_keystone(c) ==
    LET Started(c1) == Log([c1 EXCEPT !.fs.running = TRUE], "restart", "ok")
    IN  IF c.exc # NoExc THEN c
        ELSE Started(SetStatus(c, "maintenance", "Starting Keystone"))

\* ----------------------------------------------------- bootstrap CLI steps
\* sunbeam_guard.guard as used by KeystoneManager: an exception raised in
\* the guarded section is logged, the unit status is set to blocked and
\* the section is left without re-raising.  body is the context after the
\* guarded statements.
guard(body) ==
    IF body.exc = NoExc THEN body
    ELSE LET b == [body EXCEPT !.exc = NoExc,
                               !.caught = Append(@, body.exc)]
         IN  SetStatus(b, "blocked", "Error in charm (see logs)")

\* KeystoneManager._set_status
_set_status(c, status) == SetStatus(c, "maintenance", status)

\* KeystoneManager.run_cmd inside the try of a step: an ExecError becomes a
\* KeystoneException.  step is the position of the command in the
\* sequence; the command fails when the environment fails that step.
run_cmd(c, step, op) ==
    IF c.exc # NoExc THEN c
    ELSE IF c.env.cliFail = step
    THEN Raise(Log(c, op, "fail"), "KeystoneException")
    ELSE Log(c, op, "ok")

\* KeystoneManager._sync_database
_sync_database(c) == run_cmd(_set_status(c, "Syncing database"), 1, "db_sync")

\* KeystoneManager._fernet_setup: fernet_setup creates the key repository
_fernet_setup(c) ==
    LET Done(c1) ==
            IF c1.exc # NoExc THEN c1 ELSE [c1 EXCEPT !.fs.fernet = TRUE]
    IN  Done(run_cmd(_set_status(c, "Setting up fernet tokens"), 2,
                     "fernet_setup"))

\* KeystoneManager._credential_setup
_credential_setup(c) ==
    LET Done(c1) ==
            IF c1.exc # NoExc THEN c1 ELSE [c1 EXCEPT !.fs.credential = TRUE]
    IN  Done(run_cmd(_set_status(c, "Setting up credentials"), 3,
                     "credential_setup"))

\* what a successful `keystone-manage bootstrap` leaves in the identity
\* service: the Default domain, the bootstrap role plus member and reader,
\* the keystone identity service and, in the bootstrap region, one endpoint
\* per interface with the given URL (created, or updated when present).
RECURSIVE Ensure(_, _, _)
Ensure(ks, kind, todo) ==
    IF todo = <<>> THEN ks
    ELSE LET x == Head(todo)
             have == CASE kind = "domains" ->
                            \E d \in ks.domains : d.name = x.name
                       [] kind = "roles" ->
                            \E r \in ks.roles : r.name = x.name /\ r.domain = 0
                       [] kind = "services" ->
                            \E v \in ks.services : v.name = x.name
                       [] kind = "endpoints" ->
                            \E e \in ks.endpoints :
                                /\ e.service = x.service
                                /\ e.interface = x.interface
                                /\ e.region = x.region
             upd == IF kind = "endpoints"
                    THEN {IF /\ e.service = x.service
                             /\ e.interface = x.interface
                             /\ e.region = x.region
                          THEN [e EXCEPT !.url = x.url] ELSE e
                          : e \in ks.endpoints}
                    ELSE ks[kind]
             ks1 == IF have THEN [ks EXCEPT ![kind] = upd]
                    ELSE [ks EXCEPT ![kind] =
                                @ \cup {[id |-> ks.nextid] @@ x},
                               !.nextid = @ + 1]
         IN  Ensure(ks1, kind, Tail(todo))

KeystoneManageBootstrap(ks, cfg) ==
    LET k1 == Ensure(ks, "domains", <<[name |-> N_Default]>>)
        k2 == Ensure(k1, "roles",
                     <<[name |-> cfg.admin_role, domain |-> 0],
                       [name |-> N_member, domain |-> 0],
                       [name |-> N_reader, domain |-> 0]>>)
        k3 == Ensure(k2, "services",
                     <<[name |-> "keystone", type |-> "identity"]>>)
        sv == CHOOSE v \in k3.services : v.name = "keystone"
        ep(i, url) == [service |-> sv.id, interface |-> i,
                       region |-> cfg.region[1], url |-> url]
    IN  Ensure(k3, "endpoints",
               <<ep("admin", admin_endpoint(cfg)),
                 ep("public", public_endpoint(cfg)),
                 ep("internal", internal_endpoint(cfg))>>)

\* KeystoneManager._bootstrap
_bootstrap(c) ==
    LET Done(c1) ==
            IF c1.exc # NoExc THEN c1
            ELSE [c1 EXCEPT !.ks = KeystoneManageBootstrap(@, c.env.config)]
    IN  Done(run_cmd(_set_status(c, "Bootstrapping Keystone"), 4,
                     "bootstrap"))

\* KeystoneManager.setup_keystone
setup_keystone(c) ==
    LET c0 == Log(c, "setup_keystone", "call")
    IN  IF c.exc # NoExc THEN c
        ELSE [guard(_bootstrap(_credential_setup(_fernet_setup(
                  _sync_database(c0))))) EXCEPT !.ret = None]

\* ------------------------------------------- initial projects and users
\* KeystoneManager._setup_admin_accounts.  Each stage below takes the
\* context a left by the call before it (a.ret is what that call returned)
\* and the resources obtained so far; the stages are listed last first.
_setup_admin_accounts(c) ==
    LET cfg == c.env.config
        \* the three role assignments; a.ret is admin_role
        Grants(a, admin_domain, admin_project, admin_user, member_role) ==
            grant_role(
                grant_role(
                    grant_role(a, member_role, admin_user, admin_project,
                               None, TRUE),
                    a.ret, admin_user, admin_project, None, TRUE),
                a.ret, admin_user, None, admin_domain, TRUE)
        \* a.ret is member_role
        AdminRole(a, admin_domain, admin_project, admin_user) ==
            Grants(create_role(a, cfg.admin_role, None, TRUE),
                   admin_domain, admin_project, admin_user, a.ret)
        \* a.ret is admin_user
        MemberRole(a, admin_domain, admin_project) ==
            AdminRole(create_role(a, N_member, None, TRUE),
                      admin_domain, admin_project, a.ret)
        \* a.ret is admin_project
        AdminUser(a, admin_domain) ==
            MemberRole(create_user(a, cfg.admin_user, None, admin_domain,
                                   TRUE),
                       admin_domain, a.ret)
        \* a.ret is admin_domain
        AdminProject(a) ==
            IF a.exc # NoExc THEN a
            ELSE AdminUser(
                     create_project(
                         [a EXCEPT !.st.admin_domain_id = Id(a.ret.id),
                                   !.st.admin_domain_name = a.ret.name],
                         N_admin, a.ret, TRUE),
                     a.ret)
        \* a.ret is default_domain
        AdminDomain(a) ==
            IF a.exc # NoExc THEN a
            ELSE IF a.ret = None THEN Raise(a, "AttributeError")
            ELSE AdminProject(
                     create_domain(
                         [a EXCEPT !.st.default_domain_id = Id(a.ret.id)],
                         N_admin_domain, TRUE))
    IN  AdminDomain(get_domain(c, N_default))

\* KeystoneManager._setup_service_accounts
_setup_service_accounts(c) ==
    LET \* s.ret is service_project
        StoreId(s) ==
            IF s.exc # NoExc THEN s
            ELSE [s EXCEPT !.st.service_project_id = Id(s.ret.id)]
        \* s.ret is service_domain
        ServiceProject(s) ==
            StoreId(create_project(s, c.env.config.service_tenant, s.ret,
                                   TRUE))
    IN  ServiceProject(create_domain(c, N_service_domain, TRUE))

\* the triples of update_service_catalog_for_keystone with the internal
\* interface left out
RECURSIVE CatalogTodo_no_internal(_, _)
CatalogTodo_no_internal(cfg, regions) ==
    IF regions = <<>> THEN <<>>
    ELSE <<[region |-> Head(regions), interface |-> "admin",
            url |-> admin_endpoint(cfg)],
           [region |-> Head(regions), interface |-> "public",
            url |-> public_endpoint(cfg)]>>
         \o CatalogTodo_no_internal(cfg, Tail(regions))

\* the (region, interface, url) triples update_service_catalog_for_keystone
\* walks through, in order
RECURSIVE CatalogTodo(_, _)
CatalogTodo(cfg, regions) ==
    IF regions = <<>> THEN <<>>
    ELSE <<[region |-> Head(regions), interface |-> "admin",
            url |-> admin_endpoint(cfg)],
           [region |-> Head(regions), interface |-> "internal",
            url |-> internal_endpoint(cfg)],
           [region |-> Head(regions), interface |-> "public",
            url |-> public_endpoint(cfg)]>>
         \o CatalogTodo(cfg, Tail(regions))

\* the loop of update_service_catalog_for_keystone calling create_endpoint
\* without may_exist
RECURSIVE CreateEndpoints_always(_, _, _)
CreateEndpoints_always(c, service, todo) ==
    IF todo = <<>> \/ c.exc # NoExc THEN c
    ELSE CreateEndpoints_always(
             create_endpoint(c, service, Head(todo).url,
                             Head(todo).interface, Head(todo).region, FALSE),
             service, Tail(todo))

\* the loop of update_service_catalog_for_keystone over regions and
\* interfaces
RECURSIVE CreateEndpoints(_, _, _)
CreateEndpoints(c, service, todo) ==
    IF todo = <<>> \/ c.exc # NoExc THEN c
    ELSE CreateEndpoints(
             create_endpoint(c, service, Head(todo).url,
                             Head(todo).interface, Head(todo).region, TRUE),
             service, Tail(todo))

\* KeystoneManager.update_service_catalog_for_keystone
update_service_catalog_for_keystone(c) ==
    LET \* c1.ret is the service
        Endpoints(c1) ==
            IF c1.exc # NoExc THEN c1
            ELSE CreateEndpoints(c1, c1.ret,
                                 CatalogTodo(c.env.config,
                                             c.env.config.region))
    IN  Endpoints(create_service(c, "keystone", "identity", TRUE))

\* KeystoneManager.setup_initial_projects_and_users: the guarded section
\* has no return statement, so the call evaluates to None
setup_initial_projects_and_users(c) ==
    LET c0 == Log(c, "setup_initial_projects_and_users", "call")
        c1 == guard(update_service_catalog_for_keystone(
                        _setup_service_accounts(_setup_admin_accounts(c0))))
    IN  IF c.exc # NoExc THEN c
        ELSE [c1 EXCEPT !.ret = None]

\* ------------------------------------------------------------ secrets
FernetSecretName == <<AppName, ".fernet-keys">>
\* the literal 'f{self.app.name}.credential-keys' (the f is inside the
\* quotes)
CredentialSecretName == <<"f{self.app.name}", ".credential-keys">>

\* Secrets.create -> KubernetesSecretsDriver.create for a Secret built from
\* the files of a key repository (Secret(name=..., **keys)): without files
\* Secret.data is None and _encode_secret_data fails on data.items(); the
\* encoded data is dropped (_encode_secret_data returns nothing), and the
\* Kubernetes API refuses a name that exists.  The contents of the files
\* are taken to be values bytes() accepts.
secrets_create(c, name, haveKeys) ==
    IF c.exc # NoExc THEN c
    ELSE IF ~haveKeys
    THEN Raise(Log(c, "secrets.create", "fail"), "AttributeError")
    ELSE IF \E x \in c.k8s : x.name = name
    THEN Raise(Log(c, "secrets.create", "fail"), "ApiException")
    ELSE Log([c EXCEPT !.k8s = @ \cup {[name |-> name, data |-> None]}],
             "secrets.create", "ok")

\* ----------------------------------------------------------- bootstrap
\* KeystoneOperatorCharm._do_bootstrap after its four gates
BootstrapSequence(c) ==
    LET \* peers.set_bootstrapped(bootstrapped=True, ...project_info[...])
        Finish(c8, project_info) ==
            IF c8.exc # NoExc THEN c8
            ELSE IF project_info = None THEN Raise(c8, "TypeError")
            ELSE set_bootstrapped(c8, TRUE, project_info)
        \* the key repositories are read, both secrets created and the
        \* status set; c5.ret is project_info
        StoreKeys(c5) ==
            Finish(SetStatus(
                       secrets_create(
                           secrets_create(c5, FernetSecretName,
                                          c5.fs.fernet),
                           CredentialSecretName, c5.fs.credential),
                       "active", ""),
                   c5.ret)
        \* except manager.KeystoneException: set_bootstrapped(False) is
        \* called without its six other required arguments
        Except(c2) ==
            IF c2.exc = "KeystoneException"
            THEN [c2 EXCEPT !.exc = "TypeError",
                            !.caught = Append(@, "KeystoneException")]
            ELSE c2
    IN  StoreKeys(
            setup_initial_projects_and_users(
                _restart_keystone(
                    _enable_keystone_wsgi(
                        Except(setup_keystone(render_configs(c)))))))

\* KeystoneOperatorCharm._do_bootstrap without the is_leader gate
_do_bootstrap_any_unit(c) ==
    IF c.exc # NoExc THEN c
    ELSE IF is_bootstrapped(c) THEN Exit(c, "already_bootstrapped")
    ELSE IF ~c.st.db_ready
    THEN Exit(SetStatus(c, "blocked", "Waiting for database"),
              "db_not_ready")
    ELSE IF ~c.env.container THEN Exit(c, "no_container")
    ELSE BootstrapSequence(Exit(c, "bootstrap"))

\* KeystoneOperatorCharm._do_bootstrap
_do_bootstrap(c) ==
    IF c.exc # NoExc THEN c
    ELSE IF is_bootstrapped(c) THEN Exit(c, "already_bootstrapped")
    ELSE IF ~c.st.db_ready
    THEN Exit(SetStatus(c, "blocked", "Waiting for database"),
              "db_not_ready")
    ELSE IF ~c.env.leader
    THEN Exit(SetStatus(c, "blocked",
                        "Waiting for leader to bootstrap keystone"),
              "not_leader")
    ELSE IF ~c.env.container THEN Exit(c, "no_container")
    ELSE BootstrapSequence(Exit(c, "bootstrap"))

\* ------------------------------------------------------- event handlers
\* KeystoneOperatorCharm._on_keystone_pebble_ready
_on_keystone_pebble_ready(c) ==
    _do_bootstrap(_update_keystone_container(c, TRUE))

\* the text of a name given as its parts, hyphens being parts of their own
RECURSIVE Joined(_)
Joined(parts) ==
    IF parts = <<>> THEN "" ELSE Head(parts) \o Joined(Tail(parts))

\* self.app.name without the replacement of its hyphens
name_suffix_unreplaced(app) == Joined(app)

\* self.app.name.replace('-', '_')
name_suffix(app) ==
    Joined([i \in DOMAIN app |-> IF app[i] = "-" THEN "_" ELSE app[i]])

\* KeystoneOperatorCharm._on_database_changed; the call of new_database is
\* recorded with the name suffix it passes
_on_database_changed(c) ==
    IF ~c.env.db.dbs
    THEN Exit(Log(c, "new_database", name_suffix(c.env.app)),
              "request_database")
    ELSE _do_bootstrap([c EXCEPT !.st.db_ready = TRUE])

\* KeystoneOperatorCharm.charm_password
CharmPassword == "abc123"

\* KeystoneOperatorCharm._on_keystone_peers_created without the is_leader
\* gate
_on_keystone_peers_created_any_unit(c) ==
    IF charm_password(c) \in {None, Str("")}
    THEN set_charm_password(c, CharmPassword)
    ELSE c

\* KeystoneOperatorCharm._on_keystone_peers_created without the test of the
\* stored password
_on_keystone_peers_created_always(c) ==
    IF c.env.leader THEN set_charm_password(c, CharmPassword) ELSE c

\* KeystoneOperatorCharm._on_keystone_peers_created
_on_keystone_peers_created(c) ==
    IF c.env.leader /\ charm_password(c) \in {None, Str("")}
    THEN set_charm_password(c, CharmPassword)
    ELSE c

\* KeystoneOperatorCharm._on_leader_bootstrapped without the is_bootstrapped
\* test
_on_leader_bootstrapped_unchecked(c) ==
    IF c.env.container
    THEN _update_keystone_container(
             _enable_keystone_wsgi(render_configs(c)), TRUE)
    ELSE c

\* KeystoneOperatorCharm._on_leader_bootstrapped
_on_leader_bootstrapped(c) ==
    IF is_bootstrapped(c) /\ c.env.container
    THEN _update_keystone_container(
             _enable_keystone_wsgi(render_configs(c)), TRUE)
    ELSE c

\* KeystoneOperatorCharm._on_update_status
_on_update_status(c) ==
    IF is_bootstrapped(c) THEN SetStatus(c, "active", "") ELSE c

\* KeystoneOperatorCharm._on_config_changed without the is_bootstrapped
\* test
_on_config_changed_ungated(c) == update_service_catalog_for_keystone(c)

\* KeystoneOperatorCharm._on_config_changed
_on_config_changed(c) ==
    IF is_bootstrapped(c) THEN update_service_catalog_for_keystone(c) ELSE c

\* ----------------------------------------------------------------- state
VARIABLES
    leader,       \* the unit that is leader now
    peers_rel,    \* the peers relation exists
    db,           \* keystone-db relation: exists, database list, credentials
    config,       \* charm configuration
    container,    \* per unit: the keystone container is reachable
    stored,       \* per unit: KeystoneOperatorCharm._state
    unit_status,  \* per unit: the unit status last set
    fs,           \* per unit: what the charm put into the container
    peer_data,    \* application data bag of the peers relation
    k8s,          \* Kubernetes secrets
    ks,           \* identity service resources
    last,         \* trace of the handler that ran last
    counts,       \* per unit: calls of the two bootstrap entry points
    nevents,      \* events delivered so far
    scen,         \* per unit: progress through the test_leader_bootstraps
                  \* scenario
    op            \* SpecApi: the manager operation that ran last

vars == <<leader, peers_rel, db, config, container, stored, unit_status, fs,
          peer_data, k8s, ks, last, counts, nevents, scen, op>>

NoOp == [name |-> "none"]

NoDb == [rel |-> FALSE, dbs |-> FALSE, creds |-> FALSE]

Init ==
    /\ leader = "keystone/0"
    /\ peers_rel = FALSE
    /\ db = NoDb
    /\ config = DefaultConfig
    /\ container = [u \in Units |-> FALSE]
    /\ stored = [u \in Units |-> StoredDefault]
    /\ unit_status = [u \in Units |-> UnknownStatus]
    /\ fs = [u \in Units |-> EmptyFs]
    /\ peer_data = EmptyBag
    /\ k8s = {}
    /\ ks = EmptyKs
    /\ last = [unit |-> "none", event |-> "init", leader |-> FALSE,
               exit |-> "", calls |-> <<>>, exc |-> NoExc, sets |-> <<>>,
               caught |-> <<>>, writes |-> <<>>, env |-> None]
    /\ counts = [u \in Units |-> [keystone |-> 0, initial |-> 0]]
    /\ nevents = 0
    /\ scen = [u \in Units |-> "init"]
    /\ op = NoOp

\* the name the application is deployed under, as its parts: the one a
\* specification records in op, or else the charm's own name
DeployedAs == IF "app" \in DOMAIN op THEN op.app ELSE <<AppName>>

\* what the environment decides for one handler run
Env(u, cliFail, wsgiFail, failAt) ==
    [unit |-> u, leader |-> (leader = u), container |-> container'[u],
     peers_rel |-> peers_rel', db |-> db', config |-> config',
     app |-> DeployedAs,
     cliFail |-> cliFail, wsgiFail |-> wsgiFail, failAt |-> failAt]

\* the context a handler of unit u starts with
Ctx(u, e) ==
    [ks |-> ks, peer |-> peer_data, k8s |-> k8s, st |-> stored[u],
     status |-> unit_status[u], fs |-> fs[u], env |-> e,
     calls |-> <<>>, api |-> <<>>, n |-> 0, failAt |-> e.failAt,
     exc |-> NoExc, ret |-> None, sets |-> <<>>, caught |-> <<>>,
     writes |-> <<>>, exit |-> ""]

\* test_leader_bootstraps (and test_non_leader_no_bootstraps): the harness
\* adds the peers relation and a peer unit, delivers pebble-ready and then
\* the keystone-db relation events, the last of them with credentials, to
\* a unit that is leader, and nothing fails.  A behaviour that leaves the
\* scenario is "off".
ScenarioStep(s, event, c) ==
    IF s = "off" \/ ~c.env.leader \/ c.env.cliFail # 0 \/ c.env.wsgiFail
       \/ c.env.failAt # 0
    THEN "off"
    ELSE IF event = "peers_created" /\ s = "init" THEN "peers"
    ELSE IF event = "peers_joined" /\ s = "peers" THEN "peers"
    ELSE IF event = "pebble_ready" /\ s = "peers" THEN "ready"
    ELSE IF event = "db_changed" /\ s = "ready" /\ ~c.env.db.creds
    THEN "ready"
    ELSE IF event = "db_changed" /\ s \in {"ready", "db"}
            /\ c.env.db.dbs /\ c.env.db.creds
    THEN "db"
    ELSE "off"

Called(calls, name) ==
    Cardinality({i \in 1..Len(calls) : calls[i].op = name})

\* the state a finished handler leaves
Commit(u, event, c) ==
    /\ ks' = c.ks
    /\ peer_data' = c.peer
    /\ k8s' = c.k8s
    /\ stored' = [stored EXCEPT ![u] = c.st]
    /\ unit_status' = [unit_status EXCEPT ![u] = c.status]
    /\ fs' = [fs EXCEPT ![u] = c.fs]
    /\ last' = [unit |-> u, event |-> event, leader |-> c.env.leader,
                exit |-> c.exit, calls |-> c.calls, exc |-> c.exc,
                sets |-> c.sets, caught |-> c.caught, writes |-> c.writes,
                env |-> [container |-> c.env.container, db |-> c.env.db,
                         peers_rel |-> c.env.peers_rel,
                         cliFail |-> c.env.cliFail]]
    /\ counts' = [counts EXCEPT
                    ![u].keystone = @ + Called(c.calls, "setup_keystone"),
                    ![u].initial = @ + Called(c.calls,
                                        "setup_initial_projects_and_users")]
    /\ nevents' = nevents + 1
    /\ scen' = [scen EXCEPT ![u] = ScenarioStep(@, event, c)]
    /\ UNCHANGED <<leader, op>>

\* --------------------------------------------------------------- actions
\* The environment's decisions matter only to a handler that reaches the
\* calls they affect, so they are enumerated only then: a CLI step can fail
\* when the handler runs db_sync, a2ensite when it runs a2ensite, and the
\* k-th identity API call for every k up to the number of calls the handler
\* makes when none is rejected (and up to MaxApiFail).
Run(u, event, handler(_)) ==
    LET Outcome(cliFail, wsgiFail, failAt) ==
            handler(Ctx(u, Env(u, cliFail, wsgiFail, failAt)))
        ApiFails(c1, cliFail, wsgiFail) ==
            \E failAt \in 0..(IF c1.n < MaxApiFail THEN c1.n
                              ELSE MaxApiFail) :
                Commit(u, event,
                       IF failAt = 0 THEN c1
                       ELSE Outcome(cliFail, wsgiFail, failAt))
        CliFails(c0) ==
            \E cliFail \in (IF Called(c0.calls, "db_sync") > 0
                            THEN 0..4 ELSE {0}),
               wsgiFail \in (IF Called(c0.calls, "a2ensite") > 0
                             THEN BOOLEAN ELSE {FALSE}) :
                ApiFails(Outcome(cliFail, wsgiFail, 0), cliFail, wsgiFail)
    IN  CliFails(Outcome(0, FALSE, 0))

\* keystone-pebble-ready on unit u: the container is up
PebbleReady(u) ==
    /\ nevents < MaxEvents
    /\ container' = [container EXCEPT ![u] = TRUE]
    /\ UNCHANGED <<peers_rel, db, config>>
    /\ Run(u, "pebble_ready", _on_keystone_pebble_ready)

\* keystone-db-relation-changed on unit u, carrying the relation content
DatabaseChanged(u) ==
    /\ nevents < MaxEvents
    /\ \E dbs \in BOOLEAN, creds \in BOOLEAN :
          db' = [rel |-> TRUE, dbs |-> dbs, creds |-> creds]
    /\ UNCHANGED <<peers_rel, container, config>>
    /\ Run(u, "db_changed", _on_database_changed)

\* peers-relation-created on unit u (KeystoneOperatorPeers.on_created)
PeersCreated(u) ==
    /\ nevents < MaxEvents
    /\ peers_rel' = TRUE
    /\ UNCHANGED <<db, container, config>>
    /\ Run(u, "peers_created", _on_keystone_peers_created)

\* peers-relation-joined on unit u (KeystoneOperatorPeers.on_joined):
\* charm_password_changed has no observer
PeersJoined(u) ==
    /\ nevents < MaxEvents
    /\ peers_rel
    /\ UNCHANGED <<peers_rel, db, container, config>>
    /\ Commit(u, "peers_joined", Ctx(u, Env(u, 0, FALSE, 0)))

\* peers-relation-changed on unit u (KeystoneOperatorPeers.on_changed)
PeersChanged(u) ==
    /\ nevents < MaxEvents
    /\ peers_rel
    /\ UNCHANGED <<peers_rel, db, container, config>>
    /\ Run(u, "peers_changed", _on_leader_bootstrapped)

\* update-status on unit u
UpdateStatus(u) ==
    /\ nevents < MaxEvents
    /\ UNCHANGED <<peers_rel, db, container, config>>
    /\ Run(u, "update_status", _on_update_status)

\* config-changed on unit u, after the operator set the configuration
ConfigChanged(u) ==
    /\ nevents < MaxEvents
    /\ config' \in Configs
    /\ UNCHANGED <<peers_rel, db, container>>
    /\ Run(u, "config_changed", _on_config_changed)

\* the leadership moves to unit u
LeaderElected(u) ==
    /\ leader # u
    /\ leader' = u
    /\ scen' = [v \in Units |-> "off"]
    /\ UNCHANGED <<peers_rel, db, config, container, stored, unit_status, fs,
                   peer_data, k8s, ks, last, counts, nevents, op>>

Next ==
    \/ \E u \in Units :
          \/ PebbleReady(u)
          \/ DatabaseChanged(u)
          \/ PeersCreated(u)
          \/ PeersJoined(u)
          \/ PeersChanged(u)
          \/ UpdateStatus(u)
          \/ ConfigChanged(u)
    \/ \E u \in AllUnits : LeaderElected(u)

Spec == Init /\ [][Next]_vars

\* ------------------------------------------- manager operations (SpecApi)
\* The get-or-create operations of KeystoneManager applied, one call after
\* the other, to an identity service that starts empty.
ApiNames == {Name("a", {}), Name("a", {1}), Name("b", {})}

ApiCtx(failAt) ==
    [ks |-> ks, api |-> <<>>, n |-> 0, failAt |-> failAt, exc |-> NoExc,
     ret |-> None]

ApiCommit(name, args, may_exist, c) ==
    /\ ks' = c.ks
    /\ op' = [name |-> name, args |-> args, may_exist |-> may_exist,
              pre |-> ks, ret |-> c.ret, api |-> c.api, exc |-> c.exc]
    /\ nevents' = nevents + 1
    /\ UNCHANGED <<leader, peers_rel, db, config, container, stored,
                   unit_status, fs, peer_data, k8s, last, counts, scen>>

ApiCreateDomain ==
    /\ nevents < MaxOps
    /\ \E name \in ApiNames, may_exist \in BOOLEAN, failAt \in 0..MaxApiFail :
          ApiCommit("create_domain",
                    [name |-> name, project |-> None, domain |-> None],
                    may_exist,
                    create_domain(ApiCtx(failAt), name, may_exist))

ApiCreateProject ==
    /\ nevents < MaxOps
    /\ \E name \in ApiNames, domain \in ks.domains, may_exist \in BOOLEAN,
          failAt \in 0..MaxApiFail :
          ApiCommit("create_project",
                    [name |-> name, project |-> None, domain |-> domain],
                    may_exist,
                    create_project(ApiCtx(failAt), name, domain, may_exist))

ApiCreateUser ==
    /\ nevents < MaxOps
    /\ \E name \in ApiNames, project \in {None} \cup ks.projects,
          domain \in {None} \cup ks.domains, may_exist \in BOOLEAN,
          failAt \in 0..MaxApiFail :
          ApiCommit("create_user",
                    [name |-> name, project |-> project, domain |-> domain],
                    may_exist,
                    create_user(ApiCtx(failAt), name, project, domain,
                                may_exist))

NextApi == ApiCreateDomain \/ ApiCreateProject \/ ApiCreateUser

SpecApi == Init /\ [][NextApi]_vars

\* ------------------------------------- manager operations (SpecManager)
\* All seven get-or-create operations of KeystoneManager, applied one call
\* after the other with no rejected API call, to an identity service that is
\* empty, freshly bootstrapped by keystone-manage, or holds the admin
\* accounts as well.
BootstrappedKs == KeystoneManageBootstrap(EmptyKs, DefaultConfig)

AdminKs ==
    _setup_admin_accounts(
        [ks |-> BootstrappedKs, st |-> StoredDefault,
         env |-> [config |-> DefaultConfig], api |-> <<>>, n |-> 0,
         failAt |-> 0, exc |-> NoExc, ret |-> None]).ks

InitManager ==
    /\ leader = "keystone/0"
    /\ peers_rel = FALSE
    /\ db = NoDb
    /\ config = DefaultConfig
    /\ container = [u \in Units |-> FALSE]
    /\ stored = [u \in Units |-> StoredDefault]
    /\ unit_status = [u \in Units |-> UnknownStatus]
    /\ fs = [u \in Units |-> EmptyFs]
    /\ peer_data = EmptyBag
    /\ k8s = {}
    /\ ks \in {EmptyKs, BootstrappedKs, AdminKs}
    /\ last = [unit |-> "none", event |-> "init", leader |-> FALSE,
               exit |-> "", calls |-> <<>>, exc |-> NoExc, sets |-> <<>>,
               caught |-> <<>>, writes |-> <<>>, env |-> None]
    /\ counts = [u \in Units |-> [keystone |-> 0, initial |-> 0]]
    /\ nevents = 0
    /\ scen = [u \in Units |-> "init"]
    /\ op = NoOp

\* argument values of the calls
RoleNames == {N_member, Name("member", {1}), Name("a", {})}
ServiceNames == {"keystone", "glance"}
Urls == {admin_endpoint(cfg) : cfg \in Configs}
Interfaces == {"admin", "public"}
Regions == {"RegionOne"}

NoArgs ==
    [name |-> None, project |-> None, domain |-> None, role |-> None,
     user |-> None, service |-> None, type |-> None, url |-> None,
     interface |-> None, region |-> None]

\* the outcome of one call, with the call made before it
MgrCommit(name, args, may_exist, c) ==
    /\ ks' = c.ks
    /\ op' = [name |-> name, args |-> args, may_exist |-> may_exist,
              pre |-> ks, ret |-> c.ret, api |-> c.api, exc |-> c.exc,
              prev |-> IF op.name = "none" THEN NoOp
                       ELSE [name |-> op.name, args |-> op.args,
                             may_exist |-> op.may_exist, pre |-> op.pre,
                             exc |-> op.exc]]
    /\ nevents' = nevents + 1
    /\ UNCHANGED <<leader, peers_rel, db, config, container, stored,
                   unit_status, fs, peer_data, k8s, last, counts, scen>>

MgrCreateDomain ==
    /\ nevents < MaxCalls
    /\ \E name \in ApiNames, may_exist \in BOOLEAN :
          MgrCommit("create_domain", [NoArgs EXCEPT !.name = name],
                    may_exist, create_domain(ApiCtx(0), name, may_exist))

MgrCreateProject ==
    /\ nevents < MaxCalls
    /\ \E name \in ApiNames, domain \in ks.domains, may_exist \in BOOLEAN :
          MgrCommit("create_project",
                    [NoArgs EXCEPT !.name = name, !.domain = domain],
                    may_exist,
                    create_project(ApiCtx(0), name, domain, may_exist))

MgrCreateUser ==
    /\ nevents < MaxCalls
    /\ \E name \in ApiNames, project \in {None} \cup ks.projects,
          domain \in {None} \cup ks.domains, may_exist \in BOOLEAN :
          MgrCommit("create_user",
                    [NoArgs EXCEPT !.name = name, !.project = project,
                                   !.domain = domain],
                    may_exist,
                    create_user(ApiCtx(0), name, project, domain,
                                may_exist))

MgrCreateRole ==
    /\ nevents < MaxCalls
    /\ \E name \in RoleNames, may_exist \in BOOLEAN :
          MgrCommit("create_role", [NoArgs EXCEPT !.name = name],
                    may_exist, create_role(ApiCtx(0), name, None, may_exist))

MgrGrantRole ==
    /\ nevents < MaxCalls
    /\ \E role \in ks.roles, user \in ks.users,
          project \in {None} \cup ks.projects,
          domain \in {None} \cup ks.domains, may_exist \in BOOLEAN :
          MgrCommit("grant_role",
                    [NoArgs EXCEPT !.role = role, !.user = user,
                                   !.project = project, !.domain = domain],
                    may_exist,
                    grant_role(ApiCtx(0), role, user, project, domain,
                               may_exist))

MgrGetRoles ==
    /\ nevents < MaxCalls
    /\ \E user \in ks.users, project \in {None} \cup ks.projects,
          domain \in {None} \cup ks.domains :
          MgrCommit("get_roles",
                    [NoArgs EXCEPT !.user = user, !.project = project,
                                   !.domain = domain],
                    FALSE, get_roles(ApiCtx(0), user, project, domain))

MgrCreateService ==
    /\ nevents < MaxCalls
    /\ \E name \in ServiceNames, may_exist \in BOOLEAN :
          MgrCommit("create_service",
                    [NoArgs EXCEPT !.name = name, !.type = "identity"],
                    may_exist,
                    create_service(ApiCtx(0), name, "identity", may_exist))

MgrCreateEndpoint ==
    /\ nevents < MaxCalls
    /\ \E service \in ks.services, url \in Urls, interface \in Interfaces,
          region \in Regions, may_exist \in BOOLEAN :
          MgrCommit("create_endpoint",
                    [NoArgs EXCEPT !.service = service, !.url = url,
                                   !.interface = interface,
                                   !.region = region],
                    may_exist,
                    create_endpoint(ApiCtx(0), service, url, interface,
                                    region, may_exist))

NextManager ==
    \/ MgrCreateDomain
    \/ MgrCreateProject
    \/ MgrCreateUser
    \/ MgrCreateRole
    \/ MgrGrantRole
    \/ MgrGetRoles
    \/ MgrCreateService
    \/ MgrCreateEndpoint

SpecManager == InitManager /\ [][NextManager]_vars

\* --------------------- identity-service relation library (SpecIdSvc)
\* The provider and requirer objects of the identity-service relation
\* library, and the delivery of an identity-service event to
\* KeystoneOperatorCharm.  The relation has two application data bags: the
\* one the client application writes (remote) and the one the keystone
\* application writes (local).

\* values a key of a relation data bag can hold
BagValues == {Absent, Str(""), Str("x")}

\* dict.get(key) on a relation data bag
BagGet(bag, k) ==
    IF k \in DOMAIN bag /\ bag[k] # Absent THEN bag[k] ELSE None

\* truth value of an optional string
Truthy(v) == v \notin {None, Absent, Str("")}

\* the keys checked by the provider, with the last one left out
REQUIRED_KEYS_short ==
    <<"service", "internal-url", "public-url", "admin-url">>

\* REQUIRED_KEYS of IdentityServiceProvides
REQUIRED_KEYS ==
    <<"service", "internal-url", "public-url", "admin-url", "region">>

\* the keys a client application writes (register_service)
RemoteKeys == {"service", "internal-url", "public-url", "admin-url", "region"}

RemoteBags == [RemoteKeys -> BagValues]

EmptyRemote == [k \in RemoteKeys |-> Absent]

\* IdentityServiceProvides._on_identity_service_relation_joined: the events
\* it emits
Provides_on_identity_service_relation_joined ==
    <<"has_identity_service_clients">>

\* IdentityServiceProvides._on_identity_service_relation_changed: the
\* events it emits, given the remote application's data bag
Provides_on_identity_service_relation_changed(remote) ==
    IF \A i \in DOMAIN REQUIRED_KEYS : Truthy(BagGet(remote, REQUIRED_KEYS[i]))
    THEN <<"ready_identity_service_clients">>
    ELSE <<>>

\* IdentityServiceRequires.register_service without the is_leader check
register_service_any_unit(bag, is_leader, service, internal_url, public_url, admin_url, region) ==
    [bag EXCEPT !["service"] = service,
                !["internal-url"] = internal_url,
                !["public-url"] = public_url,
                !["admin-url"] = admin_url,
                !["region"] = region]

\* IdentityServiceRequires.register_service: writes the client's data bag,
\* on the leader only
register_service(bag, is_leader, service, internal_url, public_url, admin_url, region) ==
    IF is_leader
    THEN [bag EXCEPT !["service"] = service,
                     !["internal-url"] = internal_url,
                     !["public-url"] = public_url,
                     !["admin-url"] = admin_url,
                     !["region"] = region]
    ELSE bag

\* parameters of set_identity_service_credentials
CredentialParams ==
    {"admin_domain_id", "admin_project_id", "admin_user_id", "api_version",
     "auth_host", "auth_port", "auth_protocol", "internal_host",
     "internal_port", "internal_protocol", "service_domain",
     "service_domain_id", "service_host", "service_password",
     "service_port", "service_protocol", "service_tenant",
     "service_tenant_id", "service_username"}

\* the assignments of set_identity_service_credentials in order: the key
\* written and the name whose value is written
CredentialWrites ==
    << <<"admin-domain-id", "admin_domain_id">>,
       <<"admin-project-id", "admin_project_id">>,
       <<"admin-user-id", "admin_user_id">>,
       <<"api-version", "api_version">>,
       <<"auth-host", "auth_host">>,
       <<"auth-port", "auth_port">>,
       <<"auth-protocol", "auth_protocol">>,
       <<"internal-host", "internal_host">>,
       <<"internal-port", "internal_port">>,
       <<"internal-protocol", "internal_protocol">>,
       <<"service-domain", "service_domain">>,
       <<"service-domain_id", "service_domain_id">>,
       <<"service-host", "service_host">>,
       <<"service-password", "service_password">>,
       <<"service-port", "service_port">>,
       <<"service-protocol", "service_protocol">>,
       <<"service-project", "service_project">>,
       <<"service-project-id", "service_project_id">>,
       <<"service-username", "service_username">> >>

\* the accessors of IdentityServiceRequires and the key each one reads
Accessors ==
    [api_version |-> "api-version", auth_host |-> "auth-host",
     auth_port |-> "auth-port", auth_protocol |-> "auth-protocol",
     internal_host |-> "internal-host", internal_port |-> "internal-port",
     internal_protocol |-> "internal-protocol",
     service_domain |-> "service-domain",
     service_domain_id |-> "service-domain-id",
     service_host |-> "service-host",
     service_password |-> "service-password",
     service_port |-> "service-port",
     service_protocol |-> "service-protocol",
     service_project |-> "service-project",
     service_project_id |-> "service-project-id"]

\* every key of the keystone application's data bag that is written or read
LocalKeys ==
    {CredentialWrites[i][1] : i \in DOMAIN CredentialWrites}
        \cup {Accessors[a] : a \in DOMAIN Accessors}

EmptyLocal == [k \in LocalKeys |-> Absent]

\* IdentityServiceRequires.get_remote_app_data, on the data bag of the
\* keystone application
get_remote_app_data(bag, key) == BagGet(bag, key)

\* attributes, properties and methods of an IdentityServiceProvides object
ProvidesMembers ==
    {"on", "_stored", "charm", "relation_name", "framework", "model",
     "_on_identity_service_relation_joined",
     "_on_identity_service_relation_changed",
     "_on_identity_service_relation_broken",
     "set_identity_service_credentials"}

\* the assignments of set_identity_service_credentials from the i-th on; a
\* name that is no parameter raises NameError
RECURSIVE AssignCredentials(_, _, _)
AssignCredentials(c, a, i) ==
    IF i > Len(CredentialWrites) THEN c
    ELSE IF CredentialWrites[i][2] \notin DOMAIN a
    THEN [c EXCEPT !.exc = "NameError"]
    ELSE AssignCredentials(
             [c EXCEPT !.local[CredentialWrites[i][1]] =
                           a[CredentialWrites[i][2]]], a, i + 1)

\* IdentityServiceProvides.set_identity_service_credentials; a maps each
\* parameter to its argument.  The first statement reads
\* self._identity_service_rel.
set_identity_service_credentials(c, a) ==
    IF "_identity_service_rel" \notin ProvidesMembers
    THEN [c EXCEPT !.exc = "AttributeError"]
    ELSE AssignCredentials(c, a, 1)

\* the events KeystoneOperatorCharm.__init__ observes
ObservedEvents ==
    {"keystone_pebble_ready", "config_changed", "update_status",
     "peers_relation_created", "bootstrapped",
     "keystone_db_relation_changed"}

\* KeystoneOperatorCharm receives an event: whether a handler runs, and the
\* keystone application's data bag of the identity-service relation
\* afterwards.  The charm constructs no IdentityServiceProvides object and
\* none of its handlers writes that bag.
CharmDispatch(event, local) ==
    [handled |-> event \in ObservedEvents, local |-> local]

\* argument values of set_identity_service_credentials
CredentialArgs ==
    {[p \in CredentialParams |-> Str(p \o tag)] : tag \in {"", "'"}}

\* the peer data bag after a bootstrap that was recorded
BootstrappedBag ==
    [k \in PeerKeys |->
        IF k = "keystone_bootstrapped" THEN Str(json_dumps(TRUE))
        ELSE IF k = "keystone_password" THEN Str(CharmPassword)
        ELSE Id(k)]

\* self.password in IdentityServiceRequires: the class defines no attribute
\* of that name (its accessor for the password is service_password)
Requires_password(local) == [exc |-> "AttributeError", val |-> None]

\* IdentityServiceRequires._on_identity_service_relation_changed, also the
\* handler of relation-departed: the events it emits, given the keystone
\* application's data bag
Requires_on_identity_service_relation_changed(local) ==
    IF Requires_password(local).exc # NoExc
    THEN [exc |-> Requires_password(local).exc, emitted |-> <<>>]
    ELSE IF Truthy(Requires_password(local).val)
    THEN [exc |-> NoExc, emitted |-> <<"ready">>]
    ELSE [exc |-> NoExc, emitted |-> <<>>]

\* IdentityServiceRequires._on_identity_service_relation_broken
Requires_on_identity_service_relation_broken == <<"goneaway">>

\* IdentityServiceRequires._on_identity_service_relation_joined without the
\* call of register_service
Requires_on_identity_service_relation_joined_unregistered(bag, is_leader, reg) ==
    [emitted |-> <<"connected">>, remote |-> bag]

\* IdentityServiceRequires._on_identity_service_relation_joined: emits
\* connected and registers the service given to the constructor
Requires_on_identity_service_relation_joined(bag, is_leader, reg) ==
    [emitted |-> <<"connected">>,
     remote |-> register_service(bag, is_leader, reg.service,
                                 reg.internal_url, reg.public_url,
                                 reg.admin_url, reg.region)]

\* constructor arguments of IdentityServiceRequires
ServiceRegs ==
    {[service |-> Str("x"), internal_url |-> Str("x"), public_url |-> Str("x"),
      admin_url |-> Str("x"), region |-> Str("x")],
     [service |-> Str("glance"), internal_url |-> Str("int"),
      public_url |-> Str("pub"), admin_url |-> Str("adm"),
      region |-> Str("RegionOne")]}

\* what the keystone application's data bag can hold when the client's
\* handlers run: nothing, or a service password (empty or not)
LocalBags ==
    {[EmptyLocal EXCEPT !["service-password"] = v] : v \in BagValues}

NoIdOp ==
    [name |-> "none", remote |-> EmptyRemote, local |-> EmptyLocal,
     emitted |-> <<>>, exc |-> NoExc, args |-> None]

InitIdSvc ==
    /\ leader = "keystone/0"
    /\ peers_rel \in BOOLEAN
    /\ db = NoDb
    /\ config = DefaultConfig
    /\ container = [u \in Units |-> FALSE]
    /\ stored = [u \in Units |-> StoredDefault]
    /\ unit_status = [u \in Units |-> UnknownStatus]
    /\ fs = [u \in Units |-> EmptyFs]
    /\ peer_data \in IF peers_rel THEN {EmptyBag, BootstrappedBag}
                     ELSE {EmptyBag}
    /\ k8s = {}
    /\ ks = EmptyKs
    /\ last = [unit |-> "none", event |-> "init", leader |-> FALSE,
               exit |-> "", calls |-> <<>>, exc |-> NoExc, sets |-> <<>>,
               caught |-> <<>>, writes |-> <<>>, env |-> None]
    /\ counts = [u \in Units |-> [keystone |-> 0, initial |-> 0]]
    /\ nevents = 0
    /\ scen = [u \in Units |-> "init"]
    /\ op \in {[NoIdOp EXCEPT !.local = l] : l \in LocalBags}

IdCommit(o) ==
    /\ op' = o
    /\ nevents' = nevents + 1
    /\ UNCHANGED <<leader, peers_rel, db, config, container, stored,
                   unit_status, fs, peer_data, k8s, ks, last, counts, scen>>

\* a client application joins: the provider object handles relation-joined
IdSvcJoined ==
    /\ nevents < MaxOps
    /\ IdCommit([op EXCEPT !.name = "relation_joined",
                           !.emitted =
                               Provides_on_identity_service_relation_joined,
                           !.exc = NoExc, !.args = None])

\* the provider object handles relation-changed, for a client application
\* data bag that was changed from outside or for the bag as the client's
\* handlers left it
IdSvcChanged ==
    /\ nevents < MaxOps
    /\ \E bag \in RemoteBags \cup {op.remote} :
          IdCommit([op EXCEPT
              !.name = "relation_changed", !.remote = bag,
              !.emitted = Provides_on_identity_service_relation_changed(bag),
              !.exc = NoExc, !.args = None])

\* the client's leader (or another client unit) registers its service, and
\* the change is delivered to KeystoneOperatorCharm
IdSvcRegistered ==
    /\ nevents < MaxOps
    /\ \E is_leader \in BOOLEAN :
          IdCommit([op EXCEPT
              !.name = "charm_relation_changed",
              !.remote = register_service(@, is_leader, Str("x"), Str("x"),
                                          Str("x"), Str("x"), Str("x")),
              !.local = CharmDispatch("identity_service_relation_changed",
                                      @).local,
              !.emitted = <<>>, !.exc = NoExc, !.args = None])

\* the provider's method is called with a full set of arguments
IdSvcSetCredentials ==
    /\ nevents < MaxOps
    /\ \E a \in CredentialArgs :
          IdCommit([op EXCEPT
              !.name = "set_identity_service_credentials",
              !.local = set_identity_service_credentials(
                            [local |-> @, exc |-> NoExc], a).local,
              !.exc = set_identity_service_credentials(
                          [local |-> op.local, exc |-> NoExc], a).exc,
              !.emitted = <<>>, !.args = a])

\* the client charm handles relation-joined on one of its units
IdReqJoined ==
    /\ nevents < MaxOps
    /\ \E is_leader \in BOOLEAN, reg \in ServiceRegs :
          IdCommit([op EXCEPT
              !.name = "requires_relation_joined",
              !.remote = Requires_on_identity_service_relation_joined(
                             @, is_leader, reg).remote,
              !.emitted = Requires_on_identity_service_relation_joined(
                              op.remote, is_leader, reg).emitted,
              !.exc = NoExc,
              !.args = [is_leader |-> is_leader, reg |-> reg]])

\* the client charm handles relation-changed or relation-departed
IdReqChanged ==
    /\ nevents < MaxOps
    /\ \E event \in {"relation_changed", "relation_departed"} :
          IdCommit([op EXCEPT
              !.name = "requires_" \o event,
              !.emitted = Requires_on_identity_service_relation_changed(
                              op.local).emitted,
              !.exc = Requires_on_identity_service_relation_changed(
                          op.local).exc,
              !.args = None])

\* the client charm handles relation-broken
IdReqBroken ==
    /\ nevents < MaxOps
    /\ IdCommit([op EXCEPT
           !.name = "requires_relation_broken",
           !.emitted = Requires_on_identity_service_relation_broken,
           !.exc = NoExc, !.args = None])

NextIdSvc ==
    \/ IdSvcJoined
    \/ IdSvcChanged
    \/ IdSvcRegistered
    \/ IdSvcSetCredentials
    \/ IdReqJoined
    \/ IdReqChanged
    \/ IdReqBroken

SpecIdSvc == InitIdSvc /\ [][NextIdSvc]_vars

\* ------------------------------------- peer relation object (SpecPeers)
\* KeystoneOperatorPeers on its own: the peer relation may exist or not, its
\* application data bag holds what the setters can have written, and the
\* setters and is_bootstrapped are called in any order.
FlagValues == {Absent, Str(""), Str(json_dumps(TRUE)), Str(json_dumps(FALSE))}

\* identifiers handed to set_bootstrapped
IdRecords ==
    {[k \in PeerKeys |-> Id(n)] : n \in 1..2}

PeerBags ==
    {[k \in PeerKeys |->
         IF k = "keystone_bootstrapped" THEN flag
         ELSE IF k = "keystone_password" THEN pw
         ELSE IF flag = Str(json_dumps(TRUE)) THEN Id(1)
         ELSE Absent] :
     flag \in FlagValues, pw \in {Absent, Str(CharmPassword)}}

NoPeerOp == [name |-> "none", arg |-> None, ret |-> None, exc |-> NoExc,
             prev |-> "none", prevArg |-> None]

InitPeers ==
    /\ leader = "keystone/0"
    /\ peers_rel \in BOOLEAN
    /\ db = NoDb
    /\ config = DefaultConfig
    /\ container = [u \in Units |-> FALSE]
    /\ stored = [u \in Units |-> StoredDefault]
    /\ unit_status = [u \in Units |-> UnknownStatus]
    /\ fs = [u \in Units |-> EmptyFs]
    /\ peer_data \in IF peers_rel THEN PeerBags ELSE {EmptyBag}
    /\ k8s = {}
    /\ ks = EmptyKs
    /\ last = [unit |-> "none", event |-> "init", leader |-> FALSE,
               exit |-> "", calls |-> <<>>, exc |-> NoExc, sets |-> <<>>,
               caught |-> <<>>, writes |-> <<>>, env |-> None]
    /\ counts = [u \in Units |-> [keystone |-> 0, initial |-> 0]]
    /\ nevents = 0
    /\ scen = [u \in Units |-> "init"]
    /\ op = NoPeerOp

PeerCtx ==
    [env |-> [peers_rel |-> peers_rel], peer |-> peer_data, writes |-> <<>>,
     exc |-> NoExc]

\* the outcome of a call on the peers object; without a peer relation the
\* setters fail on self.peers_rel.data
PeerCommit(name, arg, ret, c) ==
    /\ peer_data' = IF peers_rel THEN c.peer ELSE peer_data
    /\ op' = [name |-> name, arg |-> arg, ret |-> ret,
              exc |-> IF peers_rel \/ name = "is_bootstrapped" THEN c.exc
                      ELSE "AttributeError",
              prev |-> op.name, prevArg |-> op.arg]
    /\ nevents' = nevents + 1
    /\ UNCHANGED <<leader, db, config, container, stored, unit_status, fs,
                   k8s, ks, last, counts, scen>>

\* the peer relation is created
PeersRelCreated ==
    /\ nevents < MaxOps
    /\ ~peers_rel
    /\ peers_rel' = TRUE
    /\ op' = [NoPeerOp EXCEPT !.name = "relation_created"]
    /\ nevents' = nevents + 1
    /\ UNCHANGED <<leader, db, config, container, stored, unit_status, fs,
                   peer_data, k8s, ks, last, counts, scen>>

PeersIsBootstrapped ==
    /\ nevents < MaxOps
    /\ UNCHANGED peers_rel
    /\ PeerCommit("is_bootstrapped", None, is_bootstrapped(PeerCtx), PeerCtx)

PeersSetBootstrapped ==
    /\ nevents < MaxOps
    /\ UNCHANGED peers_rel
    /\ \E bootstrapped \in BOOLEAN, ids \in IdRecords :
          PeerCommit("set_bootstrapped", bootstrapped, None,
                     set_bootstrapped(PeerCtx, bootstrapped, ids))

PeersSetCharmPassword ==
    /\ nevents < MaxOps
    /\ UNCHANGED peers_rel
    /\ PeerCommit("set_charm_password", None, None,
                  set_charm_password(PeerCtx, CharmPassword))

NextPeers ==
    \/ PeersRelCreated
    \/ PeersIsBootstrapped
    \/ PeersSetBootstrapped
    \/ PeersSetCharmPassword

SpecPeers == InitPeers /\ [][NextPeers]_vars

\* ------------------------------- config-changed in any state (SpecConfig)
\* _on_config_changed on a unit whose peer data may record a bootstrap, with
\* the identity service as a bootstrap attempt can have left it.
\* the identity service after a bootstrap attempt in which nothing failed
InitialKs ==
    setup_initial_projects_and_users(
        [ks |-> BootstrappedKs, st |-> StoredDefault,
         status |-> UnknownStatus, env |-> [config |-> DefaultConfig],
         calls |-> <<>>, api |-> <<>>, n |-> 0, failAt |-> 0, exc |-> NoExc,
         ret |-> None, sets |-> <<>>, caught |-> <<>>]).ks

\* configurations the operator can set: those of Configs, and the second
\* region alone
CatalogConfigs ==
    Configs \cup {[DefaultConfig EXCEPT !.region = <<"RegionTwo">>]}

NoCfgOp ==
    [name |-> "none", pre |-> EmptyKs, api |-> <<>>, exc |-> NoExc,
     prev |-> "none", prevExc |-> NoExc, prevCfg |-> None]

InitConfig ==
    /\ leader \in AllUnits
    /\ peers_rel \in BOOLEAN
    /\ db = NoDb
    /\ config \in CatalogConfigs
    /\ container = [u \in Units |-> FALSE]
    /\ stored = [u \in Units |-> StoredDefault]
    /\ unit_status = [u \in Units |-> UnknownStatus]
    /\ fs = [u \in Units |-> EmptyFs]
    /\ peer_data \in IF peers_rel THEN {EmptyBag, BootstrappedBag}
                     ELSE {EmptyBag}
    /\ k8s = {}
    /\ ks \in IF peer_data = BootstrappedBag THEN {InitialKs}
              ELSE {EmptyKs, BootstrappedKs, InitialKs}
    /\ last = [unit |-> "none", event |-> "init", leader |-> FALSE,
               exit |-> "", calls |-> <<>>, exc |-> NoExc, sets |-> <<>>,
               caught |-> <<>>, writes |-> <<>>, env |-> None]
    /\ counts = [u \in Units |-> [keystone |-> 0, initial |-> 0]]
    /\ nevents = 0
    /\ scen = [u \in Units |-> "init"]
    /\ op = NoCfgOp

\* the state the config-changed handler leaves
CfgCommit(u, c) ==
    /\ ks' = c.ks
    /\ peer_data' = c.peer
    /\ stored' = [stored EXCEPT ![u] = c.st]
    /\ unit_status' = [unit_status EXCEPT ![u] = c.status]
    /\ op' = [name |-> "config_changed", pre |-> ks, api |-> c.api,
              exc |-> c.exc, prev |-> op.name, prevExc |-> op.exc,
              prevCfg |-> config]
    /\ nevents' = nevents + 1
    /\ UNCHANGED <<leader, fs, k8s, last, counts, scen>>

\* config-changed on unit u after the operator set the configuration
\* (possibly to what it was); the failAt-th identity API call is rejected
CfgChanged(u) ==
    /\ nevents < MaxOps
    /\ config' \in CatalogConfigs
    /\ UNCHANGED <<peers_rel, db, container>>
    /\ \E failAt \in 0..MaxApiFail :
          CfgCommit(u, _on_config_changed(Ctx(u, Env(u, 0, FALSE, failAt))))

NextConfig == \E u \in Units : CfgChanged(u)

SpecConfig == InitConfig /\ [][NextConfig]_vars

\* ------------------------- layers of a unit in any peer state (SpecLayer)
\* The handlers that add the keystone layer (pebble-ready, and the peers
\* handler _on_leader_bootstrapped) on a unit that may find the bootstrap
\* recorded in the peer data, as a unit does that joins an application
\* whose peer data holds the flag.
\* the peer data bag after set_bootstrapped(False) on the bag of a recorded
\* bootstrap
ClearedBag ==
    [BootstrappedBag EXCEPT
        !["keystone_bootstrapped"] = Str(json_dumps(FALSE))]

ReadyDb == [rel |-> TRUE, dbs |-> TRUE, creds |-> TRUE]

InitLayer ==
    /\ leader \in AllUnits
    /\ peers_rel \in BOOLEAN
    /\ db \in {NoDb, ReadyDb}
    /\ config = DefaultConfig
    /\ container \in [Units -> BOOLEAN]
    /\ stored = [u \in Units |-> [StoredDefault EXCEPT !.db_ready = db.creds]]
    /\ unit_status = [u \in Units |-> UnknownStatus]
    /\ fs = [u \in Units |-> EmptyFs]
    /\ peer_data \in IF peers_rel
                     THEN {EmptyBag, BootstrappedBag, ClearedBag}
                     ELSE {EmptyBag}
    /\ k8s = {}
    /\ ks = IF peer_data = BootstrappedBag THEN InitialKs ELSE EmptyKs
    /\ last = [unit |-> "none", event |-> "init", leader |-> FALSE,
               exit |-> "", calls |-> <<>>, exc |-> NoExc, sets |-> <<>>,
               caught |-> <<>>, writes |-> <<>>, env |-> None]
    /\ counts = [u \in Units |-> [keystone |-> 0, initial |-> 0]]
    /\ nevents = 0
    /\ scen = [u \in Units |-> "off"]
    /\ op = NoOp

NextLayer ==
    /\ nevents < MaxOps
    /\ \/ \E u \in Units :
          \/ PebbleReady(u)
          \/ PeersCreated(u)
          \/ PeersChanged(u)
       \/ \E u \in AllUnits : LeaderElected(u)

SpecLayer == InitLayer /\ [][NextLayer]_vars

\* --------------------------- a unit that follows the leader (SpecFollow)
\* The modelled unit is not the leader: the leader is another unit of the
\* application, whose only visible act is to record the bootstrap in the
\* peer application data.  Events are delivered without a budget, so that
\* fairness of delivery can be assumed.
FollowLast(u, event, c) ==
    [unit |-> u, event |-> event, leader |-> c.env.leader,
     exit |-> c.exit, calls |-> c.calls, exc |-> c.exc,
     sets |-> c.sets, caught |-> c.caught, writes |-> c.writes,
     env |-> [container |-> c.env.container, db |-> c.env.db,
              peers_rel |-> c.env.peers_rel, cliFail |-> c.env.cliFail]]

\* the state a finished handler leaves
FollowCommit(u, event, c) ==
    /\ ks' = c.ks
    /\ peer_data' = c.peer
    /\ k8s' = c.k8s
    /\ stored' = [stored EXCEPT ![u] = c.st]
    /\ unit_status' = [unit_status EXCEPT ![u] = c.status]
    /\ fs' = [fs EXCEPT ![u] = c.fs]
    /\ last' = FollowLast(u, event, c)
    /\ UNCHANGED <<leader, counts, nevents, scen>>

\* the handler leaves every variable as it is
FollowQuiet(u, event, c) ==
    /\ ks = c.ks
    /\ peer_data = c.peer
    /\ k8s = c.k8s
    /\ stored[u] = c.st
    /\ unit_status[u] = c.status
    /\ fs[u] = c.fs
    /\ last = FollowLast(u, event, c)

\* what a peers-relation-changed handler of unit u finds
FollowEnv(u, wsgiFail) ==
    [unit |-> u, leader |-> (leader = u), container |-> container[u],
     peers_rel |-> peers_rel, db |-> db, config |-> config,
     cliFail |-> 0, wsgiFail |-> wsgiFail, failAt |-> 0]

\* peers-relation-changed on unit u (KeystoneOperatorPeers.on_changed emits
\* bootstrapped, observed by _on_leader_bootstrapped)
FollowChanged(u) ==
    /\ peers_rel
    /\ UNCHANGED <<peers_rel, db, container, config, op>>
    /\ \E wsgiFail \in BOOLEAN :
          FollowCommit(u, "peers_changed",
              _on_leader_bootstrapped(Ctx(u, FollowEnv(u, wsgiFail))))

\* FollowChanged(u) can change the state
FollowChangedEnabled(u) ==
    /\ peers_rel
    /\ \E wsgiFail \in BOOLEAN :
          ~FollowQuiet(u, "peers_changed",
               _on_leader_bootstrapped(Ctx(u, FollowEnv(u, wsgiFail))))

\* keystone-pebble-ready on unit u
FollowPebbleReady(u) ==
    /\ container' = [container EXCEPT ![u] = TRUE]
    /\ UNCHANGED <<peers_rel, db, config, op>>
    /\ FollowCommit(u, "pebble_ready",
           _on_keystone_pebble_ready(Ctx(u, Env(u, 0, FALSE, 0))))

\* the leader's peers.set_bootstrapped(bootstrapped=True, ...), as the
\* other units see it
FollowLeaderSets ==
    /\ peers_rel
    /\ peer_data' =
           set_bootstrapped([peer |-> peer_data, exc |-> NoExc,
                             writes |-> <<>>],
                            TRUE, [k \in PeerKeys |-> Id(k)]).peer
    /\ last' = [last EXCEPT !.unit = leader, !.event = "leader_bootstrap",
                            !.leader = TRUE, !.calls = <<>>,
                            !.writes = <<"keystone_bootstrapped">>]
    /\ UNCHANGED <<leader, peers_rel, db, config, container, stored,
                   unit_status, fs, k8s, ks, counts, nevents, scen, op>>

InitFollow == InitLayer /\ leader \notin Units

NextFollow ==
    \/ \E u \in Units :
          \/ FollowChanged(u)
          \/ FollowPebbleReady(u)
    \/ FollowLeaderSets

\* every unit keeps receiving peers-relation-changed: weak fairness of
\* FollowChanged(u), written out with its enabling condition
FairFollow ==
    \A u \in Units :
        \/ []<>(~FollowChangedEnabled(u))
        \/ []<><<FollowChanged(u)>>_vars

SpecFollow == InitFollow /\ [][NextFollow]_vars /\ FairFollow

\* ------------------------------- repeated bootstrap attempts (SpecLive)
\* The leader with the peer relation present, the container reachable and
\* the database relation complete.  An event is first queued for the unit
\* (op holds it) and then handled in one step; events arrive without a
\* budget, and in a handler the database sync, a2ensite or the first
\* identity API call may fail.
LiveEvents == {"pebble_ready", "db_changed", "update_status"}

\* the events that lead to _do_bootstrap
TriggeringEvents == {"pebble_ready", "db_changed"}

\* the handler the charm observes the event with
LiveHandler(event, c) ==
    CASE event = "pebble_ready" -> _on_keystone_pebble_ready(c)
      [] event = "db_changed" -> _on_database_changed(c)
      [] event = "update_status" -> _on_update_status(c)

InitLive ==
    /\ leader = "keystone/0"
    /\ peers_rel = TRUE
    /\ db = ReadyDb
    /\ config = DefaultConfig
    /\ container = [u \in Units |-> TRUE]
    /\ stored \in {[u \in Units |-> [StoredDefault EXCEPT !.db_ready = b]] :
                      b \in BOOLEAN}
    /\ unit_status = [u \in Units |-> UnknownStatus]
    /\ fs = [u \in Units |-> EmptyFs]
    /\ peer_data \in {EmptyBag,
                      [EmptyBag EXCEPT
                          !["keystone_password"] = Str(CharmPassword)]}
    /\ k8s = {}
    /\ ks = EmptyKs
    /\ last = [unit |-> "none", event |-> "init", leader |-> FALSE,
               exit |-> "", calls |-> <<>>, exc |-> NoExc, sets |-> <<>>,
               caught |-> <<>>, writes |-> <<>>, env |-> None]
    /\ counts = [u \in Units |-> [keystone |-> 0, initial |-> 0]]
    /\ nevents = 0
    /\ scen = [u \in Units |-> "off"]
    /\ op = NoOp

\* an event is queued for unit u
LiveArrive(u, event) ==
    /\ op = NoOp
    /\ op' = [name |-> "pending", unit |-> u, event |-> event]
    /\ UNCHANGED <<leader, peers_rel, db, config, container, stored,
                   unit_status, fs, peer_data, k8s, ks, last, counts,
                   nevents, scen>>

\* unit u handles its queued event; the environment decides what fails
LiveHandle(u, cliFail, wsgiFail, failAt) ==
    /\ op # NoOp
    /\ op.unit = u
    /\ op' = NoOp
    /\ UNCHANGED <<peers_rel, db, container, config>>
    /\ FollowCommit(u, op.event,
           LiveHandler(op.event, Ctx(u, Env(u, cliFail, wsgiFail, failAt))))

\* unit u handles a queued triggering event and no step fails
LiveHandleOk(u) ==
    /\ op # NoOp
    /\ op.event \in TriggeringEvents
    /\ LiveHandle(u, 0, FALSE, 0)

NextLive ==
    \E u \in Units :
        \/ \E event \in LiveEvents : LiveArrive(u, event)
        \/ \E cliFail \in {0, 1}, wsgiFail \in BOOLEAN, failAt \in {0, 1} :
              LiveHandle(u, cliFail, wsgiFail, failAt)

\* triggering events keep being delivered, and handlers in which every
\* step succeeds keep occurring
FairLive ==
    \A u \in Units :
        /\ WF_vars(\E event \in TriggeringEvents : LiveArrive(u, event))
        /\ []<><<LiveHandleOk(u)>>_vars

SpecLive == InitLive /\ [][NextLive]_vars /\ FairLive

\* ------------------------ the charm under a deployed name (SpecDeployed)
\* The events of Spec on an application deployed under its own name or
\* under a name with a hyphen; op holds the name.
AppNames == {<<AppName>>, <<AppName, "-", "k8s">>}

InitDeployed ==
    /\ leader = "keystone/0"
    /\ peers_rel = FALSE
    /\ db = NoDb
    /\ config = DefaultConfig
    /\ container = [u \in Units |-> FALSE]
    /\ stored = [u \in Units |-> StoredDefault]
    /\ unit_status = [u \in Units |-> UnknownStatus]
    /\ fs = [u \in Units |-> EmptyFs]
    /\ peer_data = EmptyBag
    /\ k8s = {}
    /\ ks = EmptyKs
    /\ last = [unit |-> "none", event |-> "init", leader |-> FALSE,
               exit |-> "", calls |-> <<>>, exc |-> NoExc, sets |-> <<>>,
               caught |-> <<>>, writes |-> <<>>, env |-> None]
    /\ counts = [u \in Units |-> [keystone |-> 0, initial |-> 0]]
    /\ nevents = 0
    /\ scen = [u \in Units |-> "init"]
    /\ op \in {[name |-> "deployed", app |-> a] : a \in AppNames}

NextDeployed == nevents < MaxOps /\ Next

SpecDeployed == InitDeployed /\ [][NextDeployed]_vars

\* ================================================================ claims
Range(f) == {f[i] : i \in DOMAIN f}

CliSteps == {"db_sync", "fernet_setup", "credential_setup", "bootstrap"}

\* the peer flag keystone_bootstrapped reads true
Bootstrapped ==
    is_bootstrapped([env |-> [peers_rel |-> peers_rel], peer |-> peer_data])

\* position i of a handler trace holds a failed CLI step
CliFailedAt(calls, i) == calls[i].op \in CliSteps /\ calls[i].res = "fail"

\* a step of the bootstrap attempt recorded in l failed: a CLI step, or an
\* error inside project/user setup
StepFailed(l) ==
    /\ l.exit = "bootstrap"
    /\ \/ \E i \in 1..Len(l.calls) : CliFailedAt(l.calls, i)
       \/ l.caught # <<>>

\* C1: a handler that runs on a unit that is not the leader never calls
\* setup_keystone or setup_initial_projects_and_users, whatever the event.
Thm_C1 ==
    (last.event # "init" /\ ~last.leader) =>
        /\ Called(last.calls, "setup_keystone") = 0
        /\ Called(last.calls, "setup_initial_projects_and_users") = 0

\* a non-leader with peers relation, reachable container and delivered
\* credentials handled keystone-db relation-changed and deferred
Wit_C1 ==
    /\ last.event = "db_changed"
    /\ last.exit = "not_leader"
    /\ last.env.container /\ last.env.peers_rel
    /\ last.env.db.dbs /\ last.env.db.creds

\* C2: in the test_leader_bootstraps scenario (leader, peers relation,
\* pebble-ready, then keystone-db relation events with credentials, nothing
\* failing) setup_keystone and setup_initial_projects_and_users have each
\* been called exactly once.
Cex_C2 ==
    \A u \in Units :
        scen[u] = "db" =>
            counts[u].keystone = 1 /\ counts[u].initial = 1

\* C3: setup_keystone is invoked only in a handler that runs on the leader
\* while the database relation holds credentials and the container is
\* reachable.
Cex_C3 ==
    Called(last.calls, "setup_keystone") > 0 =>
        last.leader /\ last.env.db.creds /\ last.env.container

\* C4: in a handler trace credential_setup is preceded by a successful
\* fernet_setup, and setup_initial_projects_and_users by a successful
\* keystone-manage bootstrap.
Cex_C4 ==
    \A i \in 1..Len(last.calls) :
        /\ last.calls[i].op = "credential_setup" =>
              \E j \in 1..(i - 1) :
                  last.calls[j] = [op |-> "fernet_setup", res |-> "ok"]
        /\ last.calls[i].op = "setup_initial_projects_and_users" =>
              \E j \in 1..(i - 1) :
                  last.calls[j] = [op |-> "bootstrap", res |-> "ok"]

\* C5: when a CLI step fails, the failure became a KeystoneException, the
\* failed step is the last thing the handler did, the handler ended without
\* an unhandled error and the peer flag reads false.
Cex_C5 ==
    \A i \in 1..Len(last.calls) :
        CliFailedAt(last.calls, i) =>
            /\ "KeystoneException" \in Range(last.caught)
            /\ i = Len(last.calls)
            /\ last.exc = NoExc
            /\ ~Bootstrapped

\* C6: when an identity API call fails during project/user setup, the
\* handler ends without an unhandled error, creates no Kubernetes secret and
\* leaves the peer flag false.
Cex_C6 ==
    (last.exit = "bootstrap" /\ "ApiError" \in Range(last.caught)) =>
        /\ last.exc = NoExc
        /\ \A i \in 1..Len(last.calls) : last.calls[i].op # "secrets.create"
        /\ ~Bootstrapped

\* the identifiers the manager keeps in StoredState
StoredIds(st) ==
    [f \in {"default_domain_id", "admin_domain_id", "admin_domain_name",
            "service_project_id"} |-> st[f]]

\* C7: a handler whose bootstrap attempt failed at some step leaves the
\* peer data and the stored identifiers as they were before it.
Cex_C7 ==
    [][(nevents' = nevents + 1 /\ StepFailed(last')) =>
          /\ peer_data' = peer_data
          /\ \A u \in Units : StoredIds(stored'[u]) = StoredIds(stored[u])]_vars

Cex_C9 ==
    last.exit \in {"db_not_ready", "not_leader", "no_container"} =>
        /\ last.exc = NoExc
        /\ Called(last.calls, "setup_keystone") = 0
        /\ last.sets # <<>>
        /\ last.sets[Len(last.sets)] \in {"blocked", "maintenance"}

\* the resources a get-or-create call may find: same name ignoring case, in
\* the scope the call lists
Matching(o) ==
    CASE o.name = "create_domain" ->
           {d \in o.pre.domains : lower(d.name) = lower(o.args.name)}
      [] o.name = "create_project" ->
           {x \in o.pre.projects : /\ x.domain = o.args.domain.id
                                   /\ lower(x.name) = lower(o.args.name)}
      [] o.name = "create_user" ->
           {x \in o.pre.users :
              /\ o.args.domain # None => x.domain = o.args.domain.id
              /\ o.args.project # None => x.project = o.args.project.id
              /\ lower(x.name) = lower(o.args.name)}

CreateCalls == {"domains.create", "projects.create", "users.create"}

\* C10: create_domain, create_project and create_user with may_exist=True,
\* when a resource of the same name ignoring case exists in scope, issue no
\* create call, leave the identity service unchanged and return one of the
\* existing resources.
Thm_C10 ==
    (/\ op.name \in {"create_domain", "create_project", "create_user"}
     /\ op.may_exist
     /\ Matching(op) # {}) =>
        /\ \A i \in 1..Len(op.api) : op.api[i] \notin CreateCalls
        /\ ks = op.pre
        /\ op.exc = NoExc => op.ret \in Matching(op)

\* create_project(may_exist=True) returned a project whose name differs
\* from the requested one only in case
Wit_C10 ==
    /\ op.name = "create_project" /\ op.may_exist /\ op.exc = NoExc
    /\ op.ret \in Matching(op)
    /\ op.ret.name # op.args.name

\* C11: create_role with may_exist=True, when a role of the same name ignoring
\* case exists in the listed scope, issues no create call and returns an
\* existing role.
Cex_C11 ==
    (/\ op.name = "create_role" /\ op.may_exist /\ op.exc = NoExc
     /\ \E r \in RolesListed(op.pre, None) :
            lower(r.name) = lower(op.args.name)) =>
        /\ \A i \in 1..Len(op.api) : op.api[i] # "roles.create"
        /\ op.ret \in op.pre.roles

\* the resources of state k that carry the name (for an endpoint: the
\* service, interface and region; for a grant: role, user and scope) of
\* call o, in the scope o looks them up in
SameName(o, k) ==
    CASE o.name = "create_domain" ->
           {d \in k.domains : d.name = o.args.name}
      [] o.name = "create_project" ->
           {x \in k.projects : /\ x.domain = o.args.domain.id
                               /\ x.name = o.args.name}
      [] o.name = "create_user" ->
           {x \in UsersListed(k, o.args.project, o.args.domain) :
              x.name = o.args.name}
      [] o.name = "create_role" ->
           {r \in RolesListed(k, None) : r.name = o.args.name}
      [] o.name = "create_service" ->
           {v \in k.services : v.name = o.args.name /\ v.type = o.args.type}
      [] o.name = "create_endpoint" ->
           EndpointsListed(k, o.args.service, o.args.interface,
                           o.args.region)
      [] o.name = "grant_role" ->
           {g \in k.grants :
              g = [role |-> o.args.role.id, user |-> o.args.user.id,
                   scope |-> Scope(o.args.project, o.args.domain)]}

\* op repeats the call made before it: same operation, same input, both
\* with may_exist=True, both returned
Repeated ==
    /\ op.name # "none"
    /\ op.prev.name = op.name
    /\ op.prev.args = op.args
    /\ op.prev.may_exist /\ op.may_exist
    /\ op.prev.exc = NoExc /\ op.exc = NoExc

\* C12: the second of two equal get-or-create calls with may_exist=True
\* makes no API call other than listings and leaves the identity service as
\* the first call left it; if at most one resource of that name existed
\* before the first call, at most one exists after the second.
Thm_C12 ==
    Repeated =>
        /\ ks = op.pre
        /\ \A i \in 1..Len(op.api) :
              op.api[i] \in {"domains.list", "projects.list", "users.list",
                             "roles.list", "services.list",
                             "endpoints.list"}
        /\ Cardinality(SameName(op, op.prev.pre)) <= 1 =>
              Cardinality(SameName(op, ks)) <= 1

\* grant_role was repeated after the first call had made the grant
Wit_C12 ==
    /\ Repeated
    /\ op.name = "grant_role"
    /\ SameName(op, op.prev.pre) = {}
    /\ SameName(op, ks) # {}

\* C13: on a relation-changed event the provider emits
\* ready_identity_service_clients only if each of the keys service,
\* internal-url, public-url, admin-url and region is present with a
\* non-empty value in the client application's data bag.
Thm_C13 ==
    (/\ op.name = "relation_changed"
     /\ "ready_identity_service_clients" \in Range(op.emitted)) =>
        \A k \in {"service", "internal-url", "public-url", "admin-url",
                  "region"} :
            /\ op.remote[k] # Absent
            /\ op.remote[k] # Str("")

Wit_C13 ==
    /\ op.name = "relation_changed"
    /\ op.emitted = <<"ready_identity_service_clients">>
    /\ \A k \in RemoteKeys : op.remote[k] = Str("x")

Cex_C15 ==
    (/\ last.exit = "bootstrap"
     /\ last.leader
     /\ last.caught = <<>>
     /\ \A i \in 1..Len(last.calls) : last.calls[i].res # "fail"
     /\ Called(last.calls, "setup_initial_projects_and_users") = 1
     /\ Called(last.calls, "secrets.create") = 2) =>
        /\ Bootstrapped
        /\ \A k \in PeerKeys \ {"keystone_password", "keystone_bootstrapped"} :
               peer_data[k] \notin {Absent, None}

\* C16: is_bootstrapped returns true exactly when the peer relation exists
\* and its application data bag holds the JSON boolean true under
\* keystone_bootstrapped; it returns false without a peer relation, with the
\* key absent or empty, and when called after set_bootstrapped(False).
Thm_C16 ==
    op.name = "is_bootstrapped" =>
        /\ op.exc = NoExc
        /\ op.ret = (peers_rel /\ peer_data["keystone_bootstrapped"] = Str("true"))
        /\ ~peers_rel => op.ret = FALSE
        /\ peer_data["keystone_bootstrapped"] \in {Absent, Str("")} =>
               op.ret = FALSE
        /\ (op.prev = "set_bootstrapped" /\ op.prevArg = FALSE) =>
               op.ret = FALSE

\* is_bootstrapped was called right after set_bootstrapped(False) on an
\* existing peer relation
Wit_C16 ==
    /\ op.name = "is_bootstrapped"
    /\ op.prev = "set_bootstrapped" /\ op.prevArg = FALSE
    /\ peers_rel
    /\ peer_data["keystone_bootstrapped"] = Str("false")
    /\ op.ret = FALSE

\* the parameter of set_identity_service_credentials that carries the
\* value an accessor of IdentityServiceRequires is to return
FieldOf(accessor) ==
    IF accessor = "service_project" THEN "service_tenant"
    ELSE IF accessor = "service_project_id" THEN "service_tenant_id"
    ELSE accessor

\* C17: a call of set_identity_service_credentials returns, and afterwards
\* every accessor of IdentityServiceRequires reads from the keystone
\* application's data bag the value that was passed for its field (among
\* them service-domain, service-domain-id, service-project and
\* service-project-id).
Cex_C17 ==
    op.name = "set_identity_service_credentials" =>
        /\ op.exc = NoExc
        /\ \A accessor \in DOMAIN Accessors :
               get_remote_app_data(op.local, Accessors[accessor]) =
                   op.args[FieldOf(accessor)]

Cex_C19 ==
    (/\ last.exit = "bootstrap"
     /\ Cardinality({i \in 1..Len(last.calls) :
                        last.calls[i] =
                            [op |-> "secrets.create", res |-> "ok"]}) = 2) =>
        /\ \E x \in k8s : x.name = <<AppName, ".fernet-keys">>
        /\ \E x \in k8s : x.name = <<AppName, ".credential-keys">>

\* C20: a keystone pebble-ready handler that has rendered the configs and
\* added the keystone layer goes on to the bootstrap gate and completes
\* without an error, whatever the leadership, peer and database state.
Cex_C20 ==
    (/\ last.event = "pebble_ready"
     /\ Called(last.calls, "render_configs") >= 1
     /\ Called(last.calls, "add_layer") = 1) =>
        /\ last.exit # ""
        /\ last.exc = NoExc

\* C21: the requirer's handlers complete; relation-joined emits connected,
\* relation-broken emits goneaway, and relation-changed and
\* relation-departed emit ready only if the keystone application's data bag
\* holds a non-empty service-password.
Cex_C21 ==
    /\ op.name = "requires_relation_joined" =>
           op.exc = NoExc /\ "connected" \in Range(op.emitted)
    /\ op.name = "requires_relation_broken" =>
           op.exc = NoExc /\ "goneaway" \in Range(op.emitted)
    /\ op.name \in {"requires_relation_changed",
                    "requires_relation_departed"} =>
           /\ op.exc = NoExc
           /\ "ready" \in Range(op.emitted) =>
                  Truthy(get_remote_app_data(op.local, "service-password"))

\* C22: register_service, called by the relation-joined handler, writes
\* service, internal-url, public-url, admin-url and region to the client's
\* application data bag, all five with the values given, when the unit is
\* the leader, and leaves the bag as it was when it is not.
Thm_C22 ==
    [][op'.name = "requires_relation_joined" =>
          IF op'.args.is_leader
          THEN /\ op'.remote["service"] = op'.args.reg.service
               /\ op'.remote["internal-url"] = op'.args.reg.internal_url
               /\ op'.remote["public-url"] = op'.args.reg.public_url
               /\ op'.remote["admin-url"] = op'.args.reg.admin_url
               /\ op'.remote["region"] = op'.args.reg.region
          ELSE op'.remote = op.remote]_vars

\* a unit that is not the leader handled relation-joined while the client's
\* data bag was empty
Wit_C22 ==
    /\ op.name = "requires_relation_joined"
    /\ ~op.args.is_leader
    /\ op.remote = EmptyRemote

\* the steps of a bootstrap attempt in their order
StepOrder ==
    <<"db_sync", "fernet_setup", "credential_setup", "bootstrap",
      "setup_initial_projects_and_users">>

IsStep(call) == call.op \in Range(StepOrder)

\* C23: the steps a bootstrap attempt runs are the first ones of the order
\* database sync, fernet setup, credential setup, keystone-manage bootstrap,
\* project/user setup, each one once and none left out before a later one;
\* the attempt writes the bootstrapped flag only after all five.
Cex_C23 ==
    last.exit = "bootstrap" =>
        /\ Len(SelectSeq(last.calls, IsStep)) <= Len(StepOrder)
        /\ \A i \in 1..Len(SelectSeq(last.calls, IsStep)) :
               i <= Len(StepOrder) =>
                   SelectSeq(last.calls, IsStep)[i].op = StepOrder[i]
        /\ last.writes # <<>> =>
               Len(SelectSeq(last.calls, IsStep)) = Len(StepOrder)

\* the endpoints of the service, interface and region of the call op, in
\* identity service state k
EndpointsOf(k) ==
    EndpointsListed(k, op.args.service, op.args.interface, op.args.region)

\* C24: create_endpoint with may_exist=True, applied where at most one
\* endpoint exists for the service, interface and region: an endpoint with
\* another URL is updated and none is created, one with the requested URL
\* leads to neither update nor create, and with none one is created; in
\* each case exactly one endpoint exists for the triple afterwards, with
\* the requested URL, and it is the one returned.
Thm_C24 ==
    (/\ op.name = "create_endpoint"
     /\ op.may_exist
     /\ Cardinality(EndpointsOf(op.pre)) <= 1) =>
        /\ op.exc = NoExc
        /\ EndpointsOf(op.pre) = {} =>
               op.api = <<"endpoints.list", "endpoints.create">>
        /\ \A e \in EndpointsOf(op.pre) :
               /\ e.url # op.args.url =>
                      op.api = <<"endpoints.list", "endpoints.update">>
               /\ e.url = op.args.url => op.api = <<"endpoints.list">>
               /\ op.ret.id = e.id
        /\ Cardinality(EndpointsOf(ks)) = 1
        /\ \A e \in EndpointsOf(ks) : e.url = op.args.url /\ op.ret = e
        /\ ks.endpoints \ EndpointsOf(ks) = op.pre.endpoints \ EndpointsOf(op.pre)

\* an endpoint that existed with another URL was updated
Wit_C24 ==
    /\ op.name = "create_endpoint"
    /\ op.may_exist
    /\ \E e \in EndpointsOf(op.pre) : e.url # op.args.url
    /\ Cardinality(EndpointsOf(op.pre)) = 1
    /\ op.api = <<"endpoints.list", "endpoints.update">>

\* C25: the identity catalog never holds two endpoints of the same service,
\* interface and region, and no handler ends in, or swallows, the
\* AssertionError of create_endpoint.
Thm_C25 ==
    /\ \A e1, e2 \in ks.endpoints :
           (/\ e1.service = e2.service
            /\ e1.interface = e2.interface
            /\ e1.region = e2.region) => e1 = e2
    /\ last.exc # "AssertionError"
    /\ "AssertionError" \notin Range(last.caught)

\* a bootstrap attempt under the two-region configuration: keystone-manage
\* bootstrap registered the endpoints of the first region and the catalog
\* update found them and added those of the second
Wit_C25 ==
    /\ last.exit = "bootstrap"
    /\ Called(last.calls, "setup_initial_projects_and_users") = 1
    /\ Len(config.region) = 2
    /\ Cardinality(ks.endpoints) = 6

\* the keystone identity services of identity service state k
KeystoneServices(k) ==
    {v \in k.services : v.name = "keystone" /\ v.type = "identity"}

\* the URL configured for an interface
ConfiguredUrl(interface) ==
    CASE interface = "admin" -> admin_endpoint(config)
      [] interface = "internal" -> internal_endpoint(config)
      [] interface = "public" -> public_endpoint(config)

\* the endpoints of state k that the configuration names: those of a
\* keystone identity service in a configured region
Named(k) ==
    {e \in k.endpoints :
        /\ \E v \in KeystoneServices(k) : e.service = v.id
        /\ e.region \in Range(config.region)}

\* the config-changed handler ran on a bootstrapped unit and returned
Reconciled ==
    /\ op.name = "config_changed"
    /\ op.exc = NoExc
    /\ peers_rel /\ peer_data["keystone_bootstrapped"] = Str("true")

\* C26: after update_service_catalog_for_keystone returned, every
\* configured region has an admin, an internal and a public endpoint of the
\* keystone identity service with the configured URL; endpoints of other
\* regions and everything that is no endpoint are as before; and a second
\* run under the same configuration only lists.
Thm_C26 ==
    Reconciled =>
        /\ \A region \in Range(config.region) :
           \A interface \in {"admin", "internal", "public"} :
               \E e \in ks.endpoints :
                   /\ \E v \in KeystoneServices(ks) : e.service = v.id
                   /\ e.interface = interface
                   /\ e.region = region
                   /\ e.url = ConfiguredUrl(interface)
        /\ ks.endpoints \ Named(ks) = op.pre.endpoints \ Named(op.pre)
        /\ [ks EXCEPT !.endpoints = {}, !.nextid = 0] =
               [op.pre EXCEPT !.endpoints = {}, !.nextid = 0]
        /\ (op.prev = "config_changed" /\ op.prevExc = NoExc
               /\ op.prevCfg = config) =>
               /\ ks = op.pre
               /\ \A i \in 1..Len(op.api) :
                      op.api[i] \in {"services.list", "endpoints.list"}

\* the configuration went from one region to two and got another URL: the
\* endpoints of the first region were updated, those of the second created
Wit_C26 ==
    /\ Reconciled
    /\ op.prevCfg = DefaultConfig
    /\ Len(config.region) = 2
    /\ \E i \in 1..Len(op.api) : op.api[i] = "endpoints.update"
    /\ \E i \in 1..Len(op.api) : op.api[i] = "endpoints.create"

\* C27: a config-changed handler on a unit whose peer data does not record
\* the bootstrap (or that has no peer relation) makes no identity API call
\* and changes nothing; on a bootstrapped unit it starts reconciling the
\* catalog with the lookup of the keystone service.
Thm_C27 ==
    op.name = "config_changed" =>
        IF peers_rel /\ peer_data["keystone_bootstrapped"] = Str("true")
        THEN op.api # <<>> /\ op.api[1] = "services.list"
        ELSE /\ op.api = <<>>
             /\ op.exc = NoExc
             /\ ks = op.pre
             /\ stored = [u \in Units |-> StoredDefault]
             /\ unit_status = [u \in Units |-> UnknownStatus]
             /\ peer_data = EmptyBag

\* config-changed was handled without a peer relation while the identity
\* service existed
Wit_C27 ==
    /\ op.name = "config_changed"
    /\ ~peers_rel
    /\ ks = InitialKs
    /\ config # DefaultConfig

\* the call op names both a project and a domain, or neither
InvalidScope ==
    \/ op.args.project # None /\ op.args.domain # None
    \/ op.args.project = None /\ op.args.domain = None

\* C28: grant_role and get_roles called with both a project and a domain,
\* or with neither, raise ValueError, issue no identity API call and leave
\* the identity service, its role assignments included, as it was.
Thm_C28 ==
    (op.name \in {"grant_role", "get_roles"} /\ InvalidScope) =>
        /\ op.exc = "ValueError"
        /\ op.api = <<>>
        /\ ks = op.pre

\* get_roles was called with a project and a domain
Wit_C28 ==
    /\ op.name = "get_roles"
    /\ op.args.project # None /\ op.args.domain # None
    /\ op.exc = "ValueError"

\* the assignment the grant_role call op is about
GrantOf == [role |-> op.args.role.id, user |-> op.args.user.id,
            scope |-> Scope(op.args.project, op.args.domain)]

\* C29: grant_role with may_exist=True and a valid scope: when the user
\* holds the role in that scope already, the call returns the role, issues
\* only the list call and changes nothing; otherwise it issues the list
\* call and exactly one grant call, which adds that assignment and nothing
\* else.
Thm_C29 ==
    (op.name = "grant_role" /\ op.may_exist /\ ~InvalidScope) =>
        /\ op.exc = NoExc
        /\ GrantOf \in op.pre.grants =>
               /\ op.api = <<"roles.list">>
               /\ op.ret = op.args.role
               /\ ks = op.pre
        /\ GrantOf \notin op.pre.grants =>
               /\ op.api = <<"roles.list", "roles.grant">>
               /\ ks = [op.pre EXCEPT !.grants = @ \cup {GrantOf}]

\* the user held the role in the project already
Wit_C29 ==
    /\ op.name = "grant_role" /\ op.may_exist
    /\ op.args.project # None /\ op.args.domain = None
    /\ GrantOf \in op.pre.grants
    /\ op.api = <<"roles.list">>

\* C30: every keystone layer a handler adds has startup enabled exactly
\* when the peer relation exists and its data bag holds
\* keystone_bootstrapped = true as the handler runs, and disabled
\* otherwise.
Thm_C30 ==
    [][nevents' # nevents =>
          \A i \in 1..Len(last'.calls) :
              last'.calls[i].op = "add_layer" =>
                  /\ last'.calls[i].res \in {"enabled", "disabled"}
                  /\ (last'.calls[i].res = "enabled") =
                         (/\ peers_rel'
                          /\ peer_data["keystone_bootstrapped"] = Str("true")
                          /\ peer_data'["keystone_bootstrapped"] = Str("true"))
          ]_vars

\* pebble-ready on a unit whose peer data records the bootstrap added the
\* layer with startup enabled
Wit_C30 ==
    /\ last.event = "pebble_ready"
    /\ peers_rel /\ peer_data["keystone_bootstrapped"] = Str("true")
    /\ \E i \in 1..Len(last.calls) :
           last.calls[i] = [op |-> "add_layer", res |-> "enabled"]
    /\ fs[last.unit].layer = "enabled"

\* the peer data hold keystone_bootstrapped = true
FlagSet == peers_rel /\ peer_data["keystone_bootstrapped"] = Str("true")

\* C31 (handler part): a peers-relation-changed handler of a unit that is
\* not the leader renders the configs, enables the wsgi site and adds the
\* keystone layer, with startup enabled, when the flag is true and the
\* container is available; otherwise it makes no call and leaves what the
\* container holds as it was.
FollowsLeader ==
    [][last'.event = "peers_changed" /\ ~last'.leader =>
          LET u == last'.unit
          IN  IF FlagSet /\ container[u]
              THEN /\ Called(last'.calls, "render_configs") >= 1
                   /\ Called(last'.calls, "a2ensite") = 1
                   /\ last'.exc = NoExc =>
                          /\ last'.calls[Len(last'.calls)] =
                                 [op |-> "add_layer", res |-> "enabled"]
                          /\ fs'[u].layer = "enabled"
              ELSE /\ last'.calls = <<>>
                   /\ fs'[u] = fs[u]
          ]_vars

\* C31 (liveness part): with peers-relation-changed delivered fairly, a
\* unit that is not the leader and has its container available, once the
\* flag is true, eventually holds a keystone layer with startup enabled.
EventuallyEnabled ==
    \A u \in Units :
        (leader # u /\ FlagSet /\ container[u]) ~> (fs[u].layer = "enabled")

Thm_C33 ==
    [][nevents' # nevents =>
          LET found == peer_data["keystone_password"]
              wrote == "keystone_password" \in Range(last'.writes)
              due == /\ last'.event = "peers_created"
                     /\ last'.leader
                     /\ ~Truthy(found)
          IN  /\ wrote = due
              /\ due => peer_data'["keystone_password"] = Str(CharmPassword)
              /\ ~due => peer_data'["keystone_password"] = found
          ]_vars

\* the leader handled peers-relation-created a second time, with the
\* password stored, and wrote nothing
Wit_C33 ==
    /\ last.event = "peers_created" /\ last.leader
    /\ last.writes = <<>>
    /\ peer_data["keystone_password"] = Str(CharmPassword)

\* the six identifiers of the peer application data
IdKeys == PeerKeys \ {"keystone_password", "keystone_bootstrapped"}

\* C34: on an existing peer relation the six identifiers are all present
\* when keystone_bootstrapped is true and all absent when it is false or
\* unset.
Cex_C34 ==
    peers_rel =>
        IF peer_data["keystone_bootstrapped"] = Str("true")
        THEN \A k \in IdKeys : peer_data[k] \notin {Absent, None}
        ELSE \A k \in IdKeys : peer_data[k] \in {Absent, None}

\* C35: on the leader, with the peer relation present, the container
\* reachable and the database ready, when triggering events keep being
\* delivered and handlers without a failing step keep occurring,
\* keystone_bootstrapped eventually is true and the unit eventually is
\* active.
Cex_C35 ==
    \A u \in Units :
        LET Ready == /\ leader = u /\ peers_rel /\ container[u]
                     /\ stored[u].db_ready
        IN  /\ Ready ~> Bootstrapped
            /\ <>Ready => <>(unit_status[u].name = "active")

\* C36: a relation-joined handler of the client's leader emits connected
\* and leaves the five request keys written, and the provider's
\* relation-changed handler that follows it for the same data emits
\* ready_identity_service_clients; a relation-joined handler of a client
\* unit that is not the leader leaves an empty data bag empty, and the
\* provider's relation-changed handler for an empty data bag emits nothing.
Thm_C36 ==
    [][/\ op'.name = "requires_relation_joined" =>
              /\ op'.emitted = <<"connected">>
              /\ IF op'.args.is_leader
                 THEN \A k \in RemoteKeys : Truthy(op'.remote[k])
                 ELSE op.remote = EmptyRemote => op'.remote = EmptyRemote
       /\ (/\ op.name = "requires_relation_joined"
           /\ op'.name = "relation_changed"
           /\ op'.remote = op.remote) =>
              IF op.args.is_leader
              THEN op'.emitted = <<"ready_identity_service_clients">>
              ELSE op.remote = EmptyRemote => op'.emitted = <<>>
      ]_vars

\* the provider emitted ready for the data the leader of the glance
\* application registered
Wit_C36 ==
    /\ op.name = "relation_changed"
    /\ op.emitted = <<"ready_identity_service_clients">>
    /\ op.remote["service"] = Str("glance")
    /\ op.remote["region"] = Str("RegionOne")

GateExits ==
    {"already_bootstrapped", "db_not_ready", "not_leader", "no_container",
     "bootstrap"}

\* the database name suffix of each deployed name
SuffixOf(app) ==
    CASE app = <<AppName>> -> "keystone"
      [] app = <<AppName, "-", "k8s">> -> "keystone_k8s"

\* C38: db_ready never goes from true to false and is changed by no
\* handler but that of keystone-db relation-changed; that handler, given
\* an empty database list, requests a new database with the application
\* name, hyphens replaced by underscores, as suffix, leaves db_ready as it
\* is and leaves before the gates of _do_bootstrap; given a non-empty
\* list, it sets db_ready and goes on to the gates.
Thm_C38 ==
    [][nevents' # nevents =>
          LET u == last'.unit
          IN  /\ \A v \in Units : stored[v].db_ready => stored'[v].db_ready
              /\ last'.event # "db_changed" =>
                     \A v \in Units : stored'[v].db_ready = stored[v].db_ready
              /\ last'.event = "db_changed" =>
                     IF ~last'.env.db.dbs
                     THEN /\ last'.calls =
                                 <<[op |-> "new_database",
                                    res |-> SuffixOf(op.app)]>>
                          /\ stored'[u].db_ready = stored[u].db_ready
                          /\ last'.exit = "request_database"
                          /\ last'.sets = <<>>
                     ELSE /\ stored'[u].db_ready
                          /\ last'.exit \in GateExits
                          /\ Called(last'.calls, "new_database") = 0
          ]_vars

\* the application deployed under a name with a hyphen got an empty database
\* list after db_ready had been set
Wit_C38 ==
    /\ op.app = <<AppName, "-", "k8s">>
    /\ last.event = "db_changed"
    /\ last.calls = <<[op |-> "new_database", res |-> "keystone_k8s"]>>
    /\ stored[last.unit].db_ready

\* KubernetesSecretsDriver.get_secret on the stored secrets: nothing is
\* returned for a secret without data; with data, metadata['type'] subscripts
\* a V1ObjectMeta, which raises TypeError
get_secret(store, name) ==
    LET v1secret == CHOOSE x \in store : x.name = name
    IN  IF v1secret.data = None
        THEN [ret |-> None, exc |-> NoExc]
        ELSE [ret |-> None, exc |-> "TypeError"]

\* Secrets.get_data
get_data(store, name) ==
    LET secret == get_secret(store, name)
    IN  IF secret.exc # NoExc THEN secret
        ELSE IF secret.ret = None THEN [ret |-> None, exc |-> NoExc]
        ELSE [ret |-> secret.ret.data, exc |-> NoExc]

\* C39: every secret the charm created from the keys of a key repository is
\* stored with a data dictionary, and get_data of its name returns a payload.
Cex_C39 ==
    \A x \in k8s :
        /\ x.data # None
        /\ get_data(k8s, x.name).exc = NoExc
        /\ get_data(k8s, x.name).ret # None

====
